---- MODULE Spec2Model ----
(***************************************************************************)
(* Clocked model of the entangler core gateware (entangler/core.py) and    *)
(* its RTIO register interface (entangler/phy.py).                         *)
(*                                                                         *)
(* Every module of the gateware is a synchronous circuit.  A register is a *)
(* field of a record; a combinational signal is an operator over the       *)
(* registers and the inputs of the current clock; the statements of a      *)
(* `sync` block become one next_<register> operator each.  Within one      *)
(* clock domain migen gives the last assignment to a register priority:    *)
(* statements of a module come before those of its submodules, and the     *)
(* NextValue assignments of an FSM are emitted by the FSM submodule, so    *)
(* they override the assignments of the enclosing module's sync block.     *)
(***************************************************************************)
EXTENDS Integers, Naturals, Sequences, FiniteSets, TLC

VARIABLES
    msm,        \* registers of a stand-alone MainStateMachine
    msm_in,     \* the inputs sampled at the last clock edge: run_stb, time_remaining_buf, herald
    done_count, \* history: done_stb pulses since the last run_stb (saturates at 2)
    runs,       \* history: run_stb pulses issued so far (counted in LiveSpec only)
    msm_hist,   \* history: the attempts completed since the last run_stb
    master,     \* MsmPair: registers of the master MainStateMachine
    slave,      \* MsmPair: registers of the slave MainStateMachine
    pair_in,    \* MsmPair: the inputs of both devices sampled at the last clock edge
    pair_hist,  \* MsmPair: history of the runs of the pair
    att,        \* MsmPair: history, the clocks each device has spent on its attempt
    gater,      \* GaterHarness: registers and gate offsets of the InputGater
    gater_m,    \* GaterHarness: the time cursor m the gater reads
    gater_in,   \* GaterHarness: clear as sampled at the last clock edge
    gater_hist, \* GaterHarness: history of the edges of the current attempt
    ent_msm,    \* Entangler: registers of core.msm
    ent_core,   \* Entangler: enable, the heralder's patterns, triggers_received, apd_gaters[0]
    ent_phy,    \* Entangler: the read registers of the register interface
    ent_in,     \* Entangler: the output event and the input event of the last clock
    ent_hist,   \* Entangler: history of the run in progress
    seq,        \* Sequencer: m_start, m_stop and output of a ChannelSequencer reading msm.m
    seq_hist,   \* Sequencer: history of the output over the current attempt
    her,        \* Heralder: sig, patterns, pattern_ens and the outputs matches, herald
    ent_cnt,    \* Entangler: single_channel_counters[0] and pattern_counters[0] with its patterns
    ent_cnt_hist, \* Entangler: history of the attempts the two counters are to count
    ex_a,       \* Two executions: registers of a stand-alone device, first execution
    ex_b,       \* Two executions: registers of the same device, second execution
    ex_out,     \* Two executions: done_stb of both on the last clock
    drv,        \* Driver: the list given to set_heralds and the heralder's registers
    rf,         \* Register file: every register an output event can write
    rf_in,      \* Register file: the output event of the last clock
    rf_hist     \* Register file: the registers before that clock, events so far

msm_vars == <<msm, msm_in, done_count, runs, msm_hist>>
pair_vars == <<master, slave, pair_in, pair_hist, att>>
gater_vars == <<gater, gater_m, gater_in, gater_hist>>
ent_vars == <<ent_msm, ent_core, ent_phy, ent_in, ent_hist>>
seq_vars == <<seq, seq_hist>>
cnt_vars == <<ent_cnt, ent_cnt_hist>>
ex_vars == <<ex_a, ex_b, ex_out>>
rf_vars == <<rf, rf_in, rf_hist>>
aux_vars == <<seq_vars, her, cnt_vars, ex_vars, drv, rf_vars>>
vars == <<msm, msm_in, done_count, runs, msm_hist, master, slave, pair_in, pair_hist, att,
          gater, gater_m, gater_in, gater_hist,
          ent_msm, ent_core, ent_phy, ent_in, ent_hist, seq, seq_hist, her,
          ent_cnt, ent_cnt_hist, ex_a, ex_b, ex_out, drv, rf, rf_in, rf_hist>>

----------------------------------------------------------------------------
(* Bounds of the model *)

MaxMEnd == 2         \* largest cycle length m_end explored
MaxTime == 6         \* largest time budget written with a run_stb
MaxCycles == 3       \* cap of cycles_completed (re-runs can carry the count over)

MaxCount == 3        \* largest value of an event counter explored
MaxGaterM == 3       \* largest value of the time cursor the gater harness reaches

(* Program constants *)

time_cursor_width == 10
event_counter_width == 14
counter_width == 11
n_fine == 3
gate_width == 14
harness_m_width == 14

Pow2(n) == 2 ^ n

(* x - 1 in a 32-bit register.  The model checker's integers end at 2^31 - 1, *)
(* so a 32-bit word is written in two's complement: -1 is 0xFFFFFFFF, and    *)
(* its low bits are (-1) % 2^k as for the unsigned word.                     *)
Dec32(x) == x - 1

----------------------------------------------------------------------------
(* MainStateMachine: combinational signals *)

(* act_as_master without the standalone bit. *)
act_as_master_without_standalone(s) == s.is_master

act_as_master(s) == s.is_master \/ s.standalone

cycle_ending(s) == s.m = s.m_end

cycle_starting(s) == s.state = "IDLE"

(* timeout from the device's own timer alone. *)
timeout_own_timer_only(s) == s.time_remaining = 0

timeout_only_from_master(s) == ~act_as_master(s) /\ s.timeout_in

timeout(s) ==
    \/ s.time_remaining = 0
    \/ (~act_as_master(s) /\ s.timeout_in)

finishing_not_gated_by_running(s, i) == ~i.run_stb /\ (timeout(s) \/ s.success)

finishing(s, i) == ~i.run_stb /\ s.running /\ (timeout(s) \/ s.success)

done(s, i) == finishing(s, i) /\ cycle_starting(s)

done_stb(s, i) == done(s, i) /\ ~s.done_d

trigger_out(s) == s.state \in {"TRIGGER_SLAVE", "TRIGGER_SLAVE2"}

----------------------------------------------------------------------------
(* MainStateMachine: registers *)

next_running(s, i) ==
    IF done_stb(s, i) THEN FALSE
    ELSE IF i.run_stb THEN TRUE
    ELSE s.running

next_time_remaining_no_countdown(s, i) ==
    IF i.run_stb THEN i.time_remaining_buf ELSE s.time_remaining

(* A countdown that stops when the run is over. *)
next_time_remaining_while_running(s, i) ==
    IF i.run_stb THEN i.time_remaining_buf
    ELSE IF s.running /\ ~timeout(s) THEN Dec32(s.time_remaining)
    ELSE s.time_remaining

next_time_remaining(s, i) ==
    IF i.run_stb THEN i.time_remaining_buf
    ELSE IF ~timeout(s) THEN Dec32(s.time_remaining)
    ELSE s.time_remaining

(* ready that only run_stb writes. *)
next_ready_never_cleared(s, i) ==
    IF i.run_stb THEN TRUE ELSE s.ready

next_ready(s, i) ==
    IF finishing(s, i) THEN FALSE
    ELSE IF i.run_stb THEN TRUE
    ELSE s.ready

(* Variant of next_state: the master leaves IDLE straight for COUNTER. *)
next_state_no_trigger_dwell(s, i) ==
    CASE s.state = "IDLE" ->
            IF ~finishing(s, i) /\ s.ready
               /\ (IF act_as_master(s) THEN s.slave_ready \/ s.standalone ELSE s.trigger_in)
            THEN "COUNTER" ELSE "IDLE"
      [] s.state = "TRIGGER_SLAVE" -> "TRIGGER_SLAVE2"
      [] s.state = "TRIGGER_SLAVE2" -> "COUNTER"
      [] s.state = "COUNTER" ->
            IF cycle_ending(s)
            THEN IF act_as_master(s) THEN "IDLE" ELSE "SLAVE_SUCCESS_WAIT"
            ELSE "COUNTER"
      [] s.state = "SLAVE_SUCCESS_WAIT" -> "SLAVE_SUCCESS_CHECK"
      [] OTHER -> "IDLE"

(* next_state with an exit from IDLE that does not read finishing. *)
next_state_ignoring_finishing(s, i) ==
    CASE s.state = "IDLE" ->
            IF act_as_master(s)
            THEN IF s.ready /\ (s.slave_ready \/ s.standalone)
                 THEN "TRIGGER_SLAVE" ELSE "IDLE"
            ELSE IF s.ready /\ s.trigger_in
                 THEN "COUNTER" ELSE "IDLE"
      [] s.state = "TRIGGER_SLAVE" -> "TRIGGER_SLAVE2"
      [] s.state = "TRIGGER_SLAVE2" -> "COUNTER"
      [] s.state = "COUNTER" ->
            IF cycle_ending(s)
            THEN IF act_as_master(s) THEN "IDLE" ELSE "SLAVE_SUCCESS_WAIT"
            ELSE "COUNTER"
      [] s.state = "SLAVE_SUCCESS_WAIT" -> "SLAVE_SUCCESS_CHECK"
      [] s.state = "SLAVE_SUCCESS_CHECK" -> "IDLE"

next_state_no_success_wait(s, i) ==
    CASE s.state = "IDLE" ->
            IF act_as_master(s)
            THEN IF ~finishing(s, i) /\ s.ready /\ (s.slave_ready \/ s.standalone)
                 THEN "TRIGGER_SLAVE" ELSE "IDLE"
            ELSE IF ~finishing(s, i) /\ s.ready /\ s.trigger_in
                 THEN "COUNTER" ELSE "IDLE"
      [] s.state = "TRIGGER_SLAVE" -> "TRIGGER_SLAVE2"
      [] s.state = "TRIGGER_SLAVE2" -> "COUNTER"
      [] s.state = "COUNTER" ->
            IF cycle_ending(s)
            THEN IF act_as_master(s) THEN "IDLE" ELSE "SLAVE_SUCCESS_CHECK"
            ELSE "COUNTER"
      [] s.state = "SLAVE_SUCCESS_WAIT" -> "SLAVE_SUCCESS_CHECK"
      [] s.state = "SLAVE_SUCCESS_CHECK" -> "IDLE"

next_state(s, i) ==
    CASE s.state = "IDLE" ->
            IF act_as_master(s)
            THEN IF ~finishing(s, i) /\ s.ready /\ (s.slave_ready \/ s.standalone)
                 THEN "TRIGGER_SLAVE" ELSE "IDLE"
            ELSE IF ~finishing(s, i) /\ s.ready /\ s.trigger_in
                 THEN "COUNTER" ELSE "IDLE"
      [] s.state = "TRIGGER_SLAVE" -> "TRIGGER_SLAVE2"
      [] s.state = "TRIGGER_SLAVE2" -> "COUNTER"
      [] s.state = "COUNTER" ->
            IF cycle_ending(s)
            THEN IF act_as_master(s) THEN "IDLE" ELSE "SLAVE_SUCCESS_WAIT"
            ELSE "COUNTER"
      [] s.state = "SLAVE_SUCCESS_WAIT" -> "SLAVE_SUCCESS_CHECK"
      [] s.state = "SLAVE_SUCCESS_CHECK" -> "IDLE"

(* next_m without the NextValue(m, 0) of IDLE. *)
next_m_no_idle_reset(s) ==
    CASE s.state = "COUNTER" -> (s.m + 1) % Pow2(time_cursor_width)
      [] OTHER -> s.m

(* next_m counting on through SLAVE_SUCCESS_WAIT. *)
next_m_counting_while_waiting(s) ==
    CASE s.state = "IDLE" -> 0
      [] s.state \in {"COUNTER", "SLAVE_SUCCESS_WAIT"} -> (s.m + 1) % Pow2(time_cursor_width)
      [] OTHER -> s.m

next_m(s) ==
    CASE s.state = "IDLE" -> 0
      [] s.state = "COUNTER" -> (s.m + 1) % Pow2(time_cursor_width)
      [] OTHER -> s.m

(* cycles_completed incremented by cycle_ending in every FSM state. *)
next_cycles_completed_in_any_state(s, i) ==
    IF cycle_ending(s)
    THEN (s.cycles_completed + 1) % Pow2(event_counter_width)
    ELSE IF i.run_stb THEN 0
    ELSE s.cycles_completed

next_cycles_completed(s, i) ==
    IF s.state = "COUNTER" /\ cycle_ending(s)
    THEN (s.cycles_completed + 1) % Pow2(event_counter_width)
    ELSE IF i.run_stb THEN 0
    ELSE s.cycles_completed

(* success set at the end of every attempt of a master, herald or not. *)
next_success_without_herald(s, i) ==
    IF \/ (s.state = "COUNTER" /\ cycle_ending(s) /\ act_as_master(s))
       \/ (s.state = "SLAVE_SUCCESS_CHECK" /\ s.success_in)
    THEN TRUE
    ELSE IF i.run_stb THEN FALSE
    ELSE s.success

next_success(s, i) ==
    IF \/ (s.state = "COUNTER" /\ cycle_ending(s) /\ act_as_master(s) /\ i.herald)
       \/ (s.state = "SLAVE_SUCCESS_CHECK" /\ s.success_in)
    THEN TRUE
    ELSE IF i.run_stb THEN FALSE
    ELSE s.success

(* One clock of a MainStateMachine.  i: run_stb, time_remaining_buf, herald; *)
(* l: the raw link inputs trigger_in_raw, success_in_raw, timeout_in_raw,    *)
(* slave_ready_raw.  The role bits and m_end are configuration.              *)
MsmStep(s, i, l) ==
    [ state            |-> next_state(s, i),
      m                |-> next_m(s),
      time_remaining   |-> next_time_remaining(s, i),
      cycles_completed |-> next_cycles_completed(s, i),
      running          |-> next_running(s, i),
      ready            |-> next_ready(s, i),
      success          |-> next_success(s, i),
      done_d           |-> done(s, i),
      trigger_in       |-> l.trigger_in_raw,
      success_in       |-> l.success_in_raw,
      slave_ready      |-> l.slave_ready_raw,
      timeout_in       |-> l.timeout_in_raw,
      is_master        |-> s.is_master,
      standalone       |-> s.standalone,
      m_end            |-> s.m_end ]

(* Reset state of a MainStateMachine with the given configuration. *)
MsmReset(is_master, standalone, m_end) ==
    [ state            |-> "IDLE",
      m                |-> 0,
      time_remaining   |-> 0,
      cycles_completed |-> 0,
      running          |-> FALSE,
      ready            |-> FALSE,
      success          |-> FALSE,
      done_d           |-> FALSE,
      trigger_in       |-> FALSE,
      success_in       |-> FALSE,
      slave_ready      |-> FALSE,
      timeout_in       |-> FALSE,
      is_master        |-> is_master,
      standalone       |-> standalone,
      m_end            |-> m_end ]

----------------------------------------------------------------------------
(* Environment of a stand-alone MainStateMachine *)

(* The inputs of one clock.  time_remaining_buf is read only under run_stb. *)
MsmInputs ==
    { [run_stb |-> TRUE, time_remaining_buf |-> b, herald |-> h] :
        b \in 0..MaxTime, h \in BOOLEAN }
    \cup
    { [run_stb |-> FALSE, time_remaining_buf |-> 0, herald |-> h] : h \in BOOLEAN }

NoMsmInput == [run_stb |-> FALSE, time_remaining_buf |-> 0, herald |-> FALSE]

LinkInputs ==
    [ trigger_in_raw : BOOLEAN, success_in_raw : BOOLEAN,
      timeout_in_raw : BOOLEAN, slave_ready_raw : BOOLEAN ]

(* The raw link inputs a device of s's role reads.  A master (or stand-alone *)
(* device) reads trigger_in, success_in and timeout_in in no state, a slave  *)
(* reads slave_ready in none, and a stand-alone device ORs slave_ready with  *)
(* standalone; the registers of the inputs that are not read stay at their   *)
(* reset value.                                                              *)
LinkInputsRead(s) ==
    { l \in LinkInputs :
        /\ act_as_master(s) =>
              ~l.trigger_in_raw /\ ~l.success_in_raw /\ ~l.timeout_in_raw
        /\ (~s.is_master \/ s.standalone) => ~l.slave_ready_raw }

next_done_count(s, i, n) ==
    IF i.run_stb THEN 0
    ELSE IF done_stb(s, i) /\ n < 2 THEN n + 1
    ELSE n

(* An attempt is completed by a COUNTER clock with m = m_end. *)
AttemptEnds(s) == s.state = "COUNTER" /\ cycle_ending(s)

(* History of the run.  attempts: attempts completed on the clocks after the *)
(* last run_stb; run_on_ending: that run_stb fell on a clock that completed  *)
(* an attempt.                                                               *)
next_msm_hist(s, i, h) ==
    [ attempts      |-> IF i.run_stb THEN 0
                        ELSE IF AttemptEnds(s) THEN h.attempts + 1
                        ELSE h.attempts,
      run_on_ending |-> IF i.run_stb THEN AttemptEnds(s) ELSE h.run_on_ending ]

MsmConfigured(is_master, standalone, m_end) ==
    /\ msm = MsmReset(is_master, standalone, m_end)
    /\ msm_in = NoMsmInput
    /\ done_count = 0
    /\ runs = 0
    /\ msm_hist = [ attempts |-> 0, run_on_ending |-> FALSE ]

MsmInit ==
    \E im \in BOOLEAN, sa \in BOOLEAN, me \in 0..MaxMEnd : MsmConfigured(im, sa, me)

(* The state machine out of reset, where a specification does not clock it. *)
MsmIdle == MsmConfigured(FALSE, FALSE, 0)

(* One clock edge with inputs i and raw link inputs l: the registers take *)
(* their next values; msm_in keeps the inputs that were sampled.          *)
Clock(i, l) ==
    /\ msm' = MsmStep(msm, i, l)
    /\ msm_in' = i
    /\ done_count' = next_done_count(msm, i, done_count)
    /\ msm_hist' = next_msm_hist(msm, i, msm_hist)

Tick ==
    /\ \E i \in MsmInputs, l \in LinkInputsRead(msm) : Clock(i, l)
    /\ msm'.cycles_completed <= MaxCycles
    /\ UNCHANGED runs

(* A clock edge of a behaviour in which the host starts a single run: a *)
(* run_stb is accepted only if none was issued before.                  *)
TickSingleRun ==
    \E i \in MsmInputs, l \in LinkInputsRead(msm) :
        /\ i.run_stb => runs = 0
        /\ Clock(i, l)
        /\ runs' = IF i.run_stb THEN runs + 1 ELSE runs

(* A pair of devices wired as MsmPair does: slave.ready drives the master's *)
(* slave_ready_raw, master.trigger_out the slave's trigger_in_raw and        *)
(* master.success the slave's success_in_raw; no other link input is driven. *)
MasterLink(ma, sl) ==
    [ trigger_in_raw  |-> FALSE,
      success_in_raw  |-> FALSE,
      timeout_in_raw  |-> FALSE,
      slave_ready_raw |-> sl.ready ]

SlaveLink(ma, sl) ==
    [ trigger_in_raw  |-> trigger_out(ma),
      success_in_raw  |-> ma.success,
      timeout_in_raw  |-> FALSE,
      slave_ready_raw |-> FALSE ]

(* Only the master's herald is driven (msm_pair_test). *)
SlaveInputs == { i \in MsmInputs : ~i.herald }

(* Both devices are in COUNTER on the last clock of the same attempt and the *)
(* master sees its herald: the attempt succeeds on a synchronised pair.      *)
SyncSuccess(ma, sl, i) ==
    /\ ma.state = "COUNTER" /\ cycle_ending(ma) /\ i.master.herald
    /\ sl.state = "COUNTER" /\ cycle_ending(sl)

(* History of the pair.  *_runs: run_stb pulses issued; *_done: the device   *)
(* has pulsed done_stb since its last run_stb; sync_age: clocks elapsed      *)
(* since a synchronised successful attempt ended (0: none, at most 4).       *)
next_pair_hist(ma, sl, i, h) ==
    [ master_runs |-> IF i.master.run_stb THEN h.master_runs + 1 ELSE h.master_runs,
      slave_runs  |-> IF i.slave.run_stb THEN h.slave_runs + 1 ELSE h.slave_runs,
      master_done |-> IF i.master.run_stb THEN FALSE
                      ELSE h.master_done \/ done_stb(ma, i.master),
      slave_done  |-> IF i.slave.run_stb THEN FALSE
                      ELSE h.slave_done \/ done_stb(sl, i.slave),
      sync_age    |-> IF SyncSuccess(ma, sl, i) THEN 1
                      ELSE IF h.sync_age \in 1..3 THEN h.sync_age + 1
                      ELSE 0 ]

(* History of one device's attempts.  An attempt runs from one entry into   *)
(* IDLE to the next.  age: clocks since the last entry (0 before the first   *)
(* and once the attempt has waited); waited: on some IDLE clock of the       *)
(* attempt no run was active or the partner was not ready; last: the length  *)
(* of the attempt that ended on the last clock without waiting, 0 if none.   *)
RunActive(s, i) == s.ready /\ ~finishing(s, i)

PartnerReady(s) ==
    IF act_as_master(s) THEN s.slave_ready \/ s.standalone ELSE s.trigger_in

AttCap == MaxMEnd + 8

AttReset == [age |-> 0, measured |-> FALSE, waited |-> FALSE, last |-> 0]

next_att(s, i, s2, a) ==
    LET entry == s.state # "IDLE" /\ s2.state = "IDLE"
        held == s.state = "IDLE" /\ ~(RunActive(s, i) /\ PartnerReady(s))
        waits == ~entry /\ a.measured /\ (a.waited \/ held)
        age1 == IF a.age < AttCap THEN a.age + 1 ELSE AttCap
    IN  [ age      |-> IF entry \/ ~a.measured \/ waits THEN 0 ELSE age1,
          measured |-> a.measured \/ entry,
          waited   |-> waits,
          last     |-> IF entry /\ a.measured /\ ~a.waited THEN age1 ELSE 0 ]

PairConfigured(m_end) ==
    /\ att = [master |-> AttReset, slave |-> AttReset]
    /\ master = MsmReset(TRUE, FALSE, m_end)
    /\ slave = MsmReset(FALSE, FALSE, m_end)
    /\ pair_in = [master |-> NoMsmInput, slave |-> NoMsmInput]
    /\ pair_hist = [ master_runs |-> 0, slave_runs |-> 0, master_done |-> FALSE,
                     slave_done |-> FALSE, sync_age |-> 0 ]

PairInit == \E me \in 0..MaxMEnd : PairConfigured(me)

(* The pair out of reset, where a specification does not clock it. *)
PairIdle == PairConfigured(0)

(* One clock edge of the pair; the host starts one run on each device. *)
PairTick ==
    \E im \in MsmInputs, is \in SlaveInputs :
        /\ im.run_stb => pair_hist.master_runs = 0
        /\ is.run_stb => pair_hist.slave_runs = 0
        /\ master' = MsmStep(master, im, MasterLink(master, slave))
        /\ slave' = MsmStep(slave, is, SlaveLink(master, slave))
        /\ pair_in' = [master |-> im, slave |-> is]
        /\ pair_hist' = next_pair_hist(master, slave, pair_in', pair_hist)
        /\ att' = [ master |-> next_att(master, im, master', att.master),
                    slave  |-> next_att(slave, is, slave', att.slave) ]

(* Two devices wired as a pair, the first of which may have its standalone  *)
(* bit set, and a host that starts the first device once and the second up   *)
(* to twice.                                                                 *)
PairRerunInit ==
    \E me \in 0..MaxMEnd, msa \in BOOLEAN :
        /\ att = [master |-> AttReset, slave |-> AttReset]
        /\ master = MsmReset(TRUE, msa, me)
        /\ slave = MsmReset(FALSE, FALSE, me)
        /\ pair_in = [master |-> NoMsmInput, slave |-> NoMsmInput]
        /\ pair_hist = [ master_runs |-> 0, slave_runs |-> 0, master_done |-> FALSE,
                         slave_done |-> FALSE, sync_age |-> 0 ]

PairRerunTick ==
    \E im \in MsmInputs, is \in SlaveInputs :
        /\ im.run_stb => pair_hist.master_runs = 0
        /\ is.run_stb => pair_hist.slave_runs < 2
        /\ master' = MsmStep(master, im, MasterLink(master, slave))
        /\ slave' = MsmStep(slave, is, SlaveLink(master, slave))
        /\ pair_in' = [master |-> im, slave |-> is]
        /\ pair_hist' = next_pair_hist(master, slave, pair_in', pair_hist)
        /\ att' = [ master |-> next_att(master, im, master', att.master),
                    slave  |-> next_att(slave, is, slave', att.slave) ]

----------------------------------------------------------------------------
(* InputGater.  g: the registers got_ref, triggered, ref_ts, sig_ts,        *)
(* abs_gate_start, abs_gate_stop and the offsets gate_start, gate_stop;      *)
(* m: the time cursor; ref, sig: the phys' stb_rising and fine_ts; clear.    *)

ts_width == counter_width + n_fine

(* Cat(phy.fine_ts, m) assigned to a signal of counter_width + n_fine bits. *)
CatTs(fine_ts, m) == (m * Pow2(n_fine) + fine_ts) % Pow2(ts_width)

t_ref(m, ref) == CatTs(ref.fine_ts, m)

t_sig(m, sig) == CatTs(sig.fine_ts, m)

past_window_start(g, m, sig) == t_sig(m, sig) >= g.abs_gate_start

before_window_end_ignored(g, m, sig) == TRUE

before_window_end(g, m, sig) == t_sig(m, sig) <= g.abs_gate_stop

triggering(g, m, sig) == past_window_start(g, m, sig) /\ before_window_end(g, m, sig)

next_got_ref(g, ref, clear) ==
    IF clear THEN FALSE
    ELSE IF ref.stb_rising THEN TRUE
    ELSE g.got_ref

next_ref_ts(g, m, ref) ==
    IF ref.stb_rising THEN t_ref(m, ref) ELSE g.ref_ts

next_abs_gate_start(g, m, ref) ==
    IF ref.stb_rising THEN (g.gate_start + t_ref(m, ref)) % Pow2(ts_width)
    ELSE g.abs_gate_start

next_abs_gate_stop(g, m, ref) ==
    IF ref.stb_rising THEN (g.gate_stop + t_ref(m, ref)) % Pow2(ts_width)
    ELSE g.abs_gate_stop

(* The latch of the signal edge is the later sync statement: it overrides clear. *)
sig_latch(g, m, sig) == sig.stb_rising /\ ~g.triggered /\ triggering(g, m, sig)

next_triggered(g, m, sig, clear) ==
    IF sig_latch(g, m, sig) THEN triggering(g, m, sig)
    ELSE IF clear THEN FALSE
    ELSE g.triggered

next_sig_ts(g, m, sig) ==
    IF sig_latch(g, m, sig) THEN t_sig(m, sig) ELSE g.sig_ts

GaterStep(g, m, ref, sig, clear) ==
    [ got_ref        |-> next_got_ref(g, ref, clear),
      triggered      |-> next_triggered(g, m, sig, clear),
      ref_ts         |-> next_ref_ts(g, m, ref),
      sig_ts         |-> next_sig_ts(g, m, sig),
      abs_gate_start |-> next_abs_gate_start(g, m, ref),
      abs_gate_stop  |-> next_abs_gate_stop(g, m, ref),
      gate_start     |-> g.gate_start,
      gate_stop      |-> g.gate_stop ]

GaterReset(gate_start, gate_stop) ==
    [ got_ref        |-> FALSE,
      triggered      |-> FALSE,
      ref_ts         |-> 0,
      sig_ts         |-> 0,
      abs_gate_start |-> 0,
      abs_gate_stop  |-> 0,
      gate_start     |-> gate_start % Pow2(gate_width),
      gate_stop      |-> gate_stop % Pow2(gate_width) ]

(* Environment of one gater.  The phys give at most one rising edge per     *)
(* clock, with its fine timestamp (0 without an edge, as MockPhy).          *)
FineTs == {0, Pow2(n_fine) - 1}

PhyInputs ==
    { [stb_rising |-> TRUE, fine_ts |-> f] : f \in FineTs }
    \cup { [stb_rising |-> FALSE, fine_ts |-> 0] }

(* The gate offsets explored, <<gate_start, gate_stop>>, in fine units. *)
GateWindows == { <<8, 15>>, <<8, 8>>, <<0, 7>> }

(* The time cursor: cleared with the gater (GaterHarness.rst, the IDLE      *)
(* state of MainStateMachine), else counting (COUNTER, GaterHarness) or     *)
(* held (TRIGGER_SLAVE, TRIGGER_SLAVE2).                                    *)
next_gater_m(m, clear, count) ==
    IF clear THEN 0
    ELSE IF count THEN (m + 1) % Pow2(harness_m_width)
    ELSE m

(* History of the attempt in progress: the edges seen since the last clear  *)
(* (counts saturate at 2) and the time Cat(fine_ts, m) of the latest one;   *)
(* ref_after_latch: a reference edge arrived on the clock that latched the  *)
(* signal edge of the present triggered flag, or later.                     *)
next_gater_hist(h, g, m, ref, sig, clear) ==
    IF clear
    THEN [ ref_count |-> 0, sig_count |-> 0, ref_t |-> 0, sig_t |-> 0,
           ref_after_latch |-> ref.stb_rising /\ next_triggered(g, m, sig, clear) ]
    ELSE [ ref_after_latch |->
               /\ next_triggered(g, m, sig, clear)
               /\ (h.ref_after_latch \/ ref.stb_rising),
           ref_count |-> IF ref.stb_rising /\ h.ref_count < 2
                         THEN h.ref_count + 1 ELSE h.ref_count,
           sig_count |-> IF sig.stb_rising /\ h.sig_count < 2
                         THEN h.sig_count + 1 ELSE h.sig_count,
           ref_t     |-> IF ref.stb_rising THEN t_ref(m, ref) ELSE h.ref_t,
           sig_t     |-> IF sig.stb_rising THEN t_sig(m, sig) ELSE h.sig_t ]

GaterConfigured(gate_start, gate_stop) ==
    /\ gater = GaterReset(gate_start, gate_stop)
    /\ gater_m = 0
    /\ gater_in = [clear |-> FALSE]
    /\ gater_hist = [ ref_count |-> 0, sig_count |-> 0, ref_t |-> 0, sig_t |-> 0,
                      ref_after_latch |-> FALSE ]

GaterInit == \E w \in GateWindows : GaterConfigured(w[1], w[2])

(* The gater out of reset, where a specification does not clock it. *)
GaterIdle == GaterConfigured(0, 0)

(* One clock edge of the gater and of the cursor. *)
GaterTick ==
    \E clear \in BOOLEAN, count \in BOOLEAN, ref \in PhyInputs, sig \in PhyInputs :
        /\ gater' = GaterStep(gater, gater_m, ref, sig, clear)
        /\ gater_m' = next_gater_m(gater_m, clear, count)
        /\ gater_m' <= MaxGaterM
        /\ gater_in' = [clear |-> clear]
        /\ gater_hist' = next_gater_hist(gater_hist, gater, gater_m, ref, sig, clear)

----------------------------------------------------------------------------
(* Entangler: the register interface (phy.py) around EntanglerCore.         *)
(* o: the rtlink output event of this clock, [stb, address, data].          *)
(* c: enable, heralder.patterns, heralder.pattern_ens, triggers_received    *)
(* and apd, the registers of apd_gaters[0].  p: read, read_counters,        *)
(* read_timestamps, read_addr.  The phys of APD 1..3 are quiet: their       *)
(* gaters keep triggered = 0 and sig_ts = 0.                                *)

Bit(x, k) == (x \div Pow2(k)) % 2

(* x[lo:hi] of a migen signal *)
Slice(x, lo, hi) == (x \div Pow2(lo)) % Pow2(hi - lo)

ADDR_W_CONFIG == 0
ADDR_W_RUN == 1
ADDR_W_TCYCLE == 2
ADDR_W_HERALD == 3
ADDR_W_GATE_APD0 == 12
ADDR_R_STATUS == 32
ADDR_R_NCYCLES == 33
ADDR_R_TIMEREMAINING == 34
ADDR_R_NTRIGGERS == 35
ADDR_R_TIMESTAMP_APD0 == 40
ADDR_R_TIMESTAMP_422PS == 44
ADDR_R_COUNTER_RESULT_BASE == 48

TimeoutDatum == 16383

read_en(o) == Bit(o.address, 5) = 1

write_timings(o) == Slice(o.address, 3, 6) = 1

run_stb(o) == o.address = ADDR_W_RUN /\ o.stb

(* Heralder *)
heralder_sig(c) == IF c.apd.triggered THEN 1 ELSE 0

(* Heralder: n_sig inputs, n_patterns patterns *)
n_sig == 4
n_patterns == 4

(* a & b of two n_patterns-bit words *)
BitAnd(a, b) ==
    (Bit(a, 0) * Bit(b, 0)) + 2 * (Bit(a, 1) * Bit(b, 1))
    + 4 * (Bit(a, 2) * Bit(b, 2)) + 8 * (Bit(a, 3) * Bit(b, 3))

(* Heralder.matches with only patterns[0] compared *)
MatchesFirstOnly(sig, patterns) == IF patterns[1] = sig THEN 1 ELSE 0

(* Heralder.matches: matches[i] = (patterns[i] == sig), as a 4-bit word *)
MatchesOf(sig, patterns) ==
    (IF patterns[1] = sig THEN 1 ELSE 0)
    + (IF patterns[2] = sig THEN 2 ELSE 0)
    + (IF patterns[3] = sig THEN 4 ELSE 0)
    + (IF patterns[4] = sig THEN 8 ELSE 0)

(* Heralder.herald = (pattern_ens & matches) != 0 *)
HeraldOf(pattern_ens, m) == BitAnd(pattern_ens, m) # 0

(* matches and herald of the core's heralder *)
matches(c) == MatchesOf(heralder_sig(c), c.patterns)

herald(c) == HeraldOf(c.pattern_ens, matches(c))

(* The inputs of core.msm on this clock *)
EntMsmInput(c, o) ==
    [ run_stb            |-> run_stb(o),
      time_remaining_buf |-> o.data,
      herald             |-> herald(c) ]

(* Registers written by output events *)
next_enable(c, o) ==
    IF o.stb /\ o.address = ADDR_W_CONFIG THEN Bit(o.data, 0) = 1 ELSE c.enable

next_is_master(s, o) ==
    IF o.stb /\ o.address = ADDR_W_CONFIG THEN Bit(o.data, 1) = 1 ELSE s.is_master

next_standalone(s, o) ==
    IF o.stb /\ o.address = ADDR_W_CONFIG THEN Bit(o.data, 2) = 1 ELSE s.standalone

next_m_end(s, o) ==
    IF o.stb /\ o.address = ADDR_W_TCYCLE THEN Slice(o.data, 0, 10) ELSE s.m_end

next_patterns(c, o) ==
    IF o.stb /\ o.address = ADDR_W_HERALD
    THEN << Slice(o.data, 0, 4), Slice(o.data, 4, 8),
            Slice(o.data, 8, 12), Slice(o.data, 12, 16) >>
    ELSE c.patterns

(* A HERALD write that enables every pattern slot. *)
next_pattern_ens_all_enabled(c, o) ==
    IF o.stb /\ o.address = ADDR_W_HERALD THEN Pow2(n_patterns) - 1 ELSE c.pattern_ens

next_pattern_ens(c, o) ==
    IF o.stb /\ o.address = ADDR_W_HERALD THEN Slice(o.data, 16, 20) ELSE c.pattern_ens

next_gate_start(g, o) ==
    IF o.stb /\ write_timings(o) /\ Slice(o.address, 0, 3) = ADDR_W_GATE_APD0 % 8
    THEN Slice(o.data, 0, 16) % Pow2(gate_width)
    ELSE g.gate_start

next_gate_stop(g, o) ==
    IF o.stb /\ write_timings(o) /\ Slice(o.address, 0, 3) = ADDR_W_GATE_APD0 % 8
    THEN Slice(o.data, 16, 32) % Pow2(gate_width)
    ELSE g.gate_stop

next_triggers_received(c, s, o) ==
    IF run_stb(o) THEN 0
    ELSE IF cycle_ending(s) /\ c.apd.got_ref
         THEN (c.triggers_received + 1) % Pow2(event_counter_width)
    ELSE c.triggers_received

(* The read registers *)
next_read_no_clear(p, o) ==
    IF o.stb THEN read_en(o) ELSE p.read

next_read(p, o) ==
    IF o.stb THEN read_en(o)
    ELSE IF p.read THEN FALSE
    ELSE p.read

next_read_counters(p, o) ==
    IF o.stb THEN Slice(o.address, 3, 5) = 2 ELSE p.read_counters

next_read_timestamps(p, o) ==
    IF o.stb THEN Slice(o.address, 3, 5) = 1 ELSE p.read_timestamps

next_read_addr(p, o) ==
    IF o.stb THEN Slice(o.address, 0, 3) ELSE p.read_addr

(* The read data path *)
status(s) ==
    (IF s.ready THEN 1 ELSE 0) + (IF s.success THEN 2 ELSE 0) + (IF timeout(s) THEN 4 ELSE 0)

reg_data(p, c, s) ==
    CASE p.read_addr = 0 -> status(s)
      [] p.read_addr = 1 -> s.cycles_completed
      [] p.read_addr = 2 -> s.time_remaining % Pow2(event_counter_width)
      [] p.read_addr = 3 -> c.triggers_received
      [] OTHER -> 0

(* input_timestamps = [apd0..apd3 sig_ts, apd_gaters[0].ref_ts] *)
timing_data(p, c) ==
    CASE p.read_addr = 0 -> c.apd.sig_ts % Pow2(14)
      [] p.read_addr = 4 -> c.apd.ref_ts % Pow2(14)
      [] OTHER -> 0

(* cnt: the value of the counter selected by read_addr.  The counters are   *)
(* not part of this state; their value is an input of the clock.            *)
counter_data(p, cnt) == cnt % Pow2(event_counter_width)

completion_not_gated_by_enable(c, s, i) == done_stb(s, i)

completion(c, s, i) == c.enable /\ done_stb(s, i)

i_stb(p, c, s, i) == p.read \/ completion(c, s, i)

(* i.data with the pending read reply ahead of the completion datum. *)
i_data_read_first(p, c, s, i, cnt) ==
    IF p.read
    THEN (IF p.read_counters THEN counter_data(p, cnt)
          ELSE IF p.read_timestamps THEN timing_data(p, c)
          ELSE reg_data(p, c, s))
    ELSE IF completion(c, s, i)
    THEN (IF s.success THEN matches(c) ELSE TimeoutDatum)
    ELSE reg_data(p, c, s)

i_data(p, c, s, i, cnt) ==
    IF completion(c, s, i)
    THEN (IF s.success THEN matches(c) ELSE TimeoutDatum)
    ELSE IF p.read_counters THEN counter_data(p, cnt)
    ELSE IF p.read_timestamps THEN timing_data(p, c)
    ELSE reg_data(p, c, s)

(* One clock of every register of the Entangler *)
EntMsmStep(s, i, o, l) ==
    [ MsmStep(s, i, l) EXCEPT
        !.is_master  = next_is_master(s, o),
        !.standalone = next_standalone(s, o),
        !.m_end      = next_m_end(s, o) ]

EntGaterStep(g, s, o, ref, sig) ==
    [ GaterStep(g, s.m, ref, sig, cycle_starting(s)) EXCEPT
        !.gate_start = next_gate_start(g, o),
        !.gate_stop  = next_gate_stop(g, o) ]

EntCoreStep(c, s, o, ref, sig) ==
    [ enable            |-> next_enable(c, o),
      patterns          |-> next_patterns(c, o),
      pattern_ens       |-> next_pattern_ens(c, o),
      triggers_received |-> next_triggers_received(c, s, o),
      apd               |-> EntGaterStep(c.apd, s, o, ref, sig) ]

EntPhyStep(p, o) ==
    [ read            |-> next_read(p, o),
      read_counters   |-> next_read_counters(p, o),
      read_timestamps |-> next_read_timestamps(p, o),
      read_addr       |-> next_read_addr(p, o) ]

EntCoreReset(gate_start, gate_stop) ==
    [ enable            |-> FALSE,
      patterns          |-> <<0, 0, 0, 0>>,
      pattern_ens       |-> 0,
      triggers_received |-> 0,
      apd               |-> GaterReset(gate_start, gate_stop) ]

EntPhyReset ==
    [ read |-> FALSE, read_counters |-> FALSE, read_timestamps |-> FALSE, read_addr |-> 0 ]

(* History of the run in progress.  budget: clocks left of the             *)
(* time_remaining_buf + m_end + 5 clocks after the run_stb, counted until   *)
(* the first completion event; late: they passed without one; T_pos: the    *)
(* budget written was at least 1; dones, events: done_stb pulses and        *)
(* completion events since the run_stb (saturating at 2); event_data: the   *)
(* datum of the last completion event; clean: the run was started enabled,  *)
(* standalone and with no pattern that can match, and nothing was written   *)
(* since.                                                                   *)
ResponseAllowance == 5

next_ent_hist(h, p, c, s, o, i, cnt) ==
        IF run_stb(o)
        THEN [ budget |-> o.data + s.m_end + ResponseAllowance, late |-> FALSE,
               T_pos |-> o.data >= 1, dones |-> 0, events |-> 0, event_data |-> 0,
               clean |-> c.enable /\ s.standalone /\ ~herald(c) ]
        ELSE [ budget     |-> IF completion(c, s, i) \/ h.events > 0 \/ h.budget = 0
                              THEN 0 ELSE h.budget - 1,
               late       |-> h.late \/ (h.budget = 1 /\ h.events = 0 /\ ~completion(c, s, i)),
               T_pos      |-> h.T_pos,
               clean      |-> h.clean /\ ~(o.stb /\ ~read_en(o)),
               dones      |-> IF done_stb(s, i) /\ h.dones < 2 THEN h.dones + 1 ELSE h.dones,
               events     |-> IF completion(c, s, i) /\ h.events < 2
                              THEN h.events + 1 ELSE h.events,
               event_data |-> IF completion(c, s, i)
                              THEN i_data(p, c, s, i, cnt) ELSE h.event_data ]

(* Output events *)
OutputEvent(address, data) == [stb |-> TRUE, address |-> address, data |-> data]

NoEvent == [stb |-> FALSE, address |-> 0, data |-> 0]

(* Herald words: no pattern enabled; pattern 0 = 0b0000 enabled *)
HeraldWords == { 0, Pow2(16) }

ReadAddresses ==
    { ADDR_R_STATUS, ADDR_R_NCYCLES, ADDR_R_TIMESTAMP_422PS, ADDR_R_COUNTER_RESULT_BASE }

CounterValues == { 0, 5 }

(* Config words: standalone disabled and enabled (test_timeout), master enabled *)
ConfigWords == { 6, 7, 3 }

RunEvents == { OutputEvent(ADDR_W_RUN, T) : T \in 0..MaxTime }

ReadEvents == { OutputEvent(a, 0) : a \in ReadAddresses }

ConfigEvents ==
    { OutputEvent(ADDR_W_CONFIG, d) : d \in ConfigWords }
    \cup { OutputEvent(ADDR_W_TCYCLE, d) : d \in 0..MaxMEnd }
    \cup { OutputEvent(ADDR_W_HERALD, d) : d \in HeraldWords }

(* The host configures the core and starts a run while no run is in        *)
(* progress, and may read a register on any clock.                          *)
HostEvents(s) ==
    {NoEvent} \cup ReadEvents
    \cup (IF s.running THEN {} ELSE RunEvents \cup ConfigEvents)

ZeroLink ==
    [ trigger_in_raw |-> FALSE, success_in_raw |-> FALSE,
      timeout_in_raw |-> FALSE, slave_ready_raw |-> FALSE ]

NoEdge == [stb_rising |-> FALSE, fine_ts |-> 0]

EntInit ==
    /\ ent_msm = MsmReset(FALSE, FALSE, 0)
    /\ ent_core = EntCoreReset(0, 0)
    /\ ent_phy = EntPhyReset
    /\ ent_in = [stb |-> FALSE, address |-> 0, cnt |-> 0, i_stb |-> FALSE, i_data |-> 0]
    /\ ent_hist = [ budget |-> 0, late |-> FALSE, T_pos |-> FALSE,
                    dones |-> 0, events |-> 0, event_data |-> 0, clean |-> FALSE ]

(* One clock edge of the Entangler.  ent_in records the output event and    *)
(* the input event (i_stb, i_data) of the clock.                            *)
EntClock(o, l, ref, sig, cnt) ==
    \E i \in {EntMsmInput(ent_core, o)} :
        /\ ent_msm' = EntMsmStep(ent_msm, i, o, l)
        /\ ent_msm'.cycles_completed <= MaxCycles
        /\ ent_core' = EntCoreStep(ent_core, ent_msm, o, ref, sig)
        /\ ent_phy' = EntPhyStep(ent_phy, o)
        /\ ent_in' = [ stb |-> o.stb, address |-> o.address, cnt |-> cnt,
                       i_stb  |-> i_stb(ent_phy, ent_core, ent_msm, i),
                       i_data |-> i_data(ent_phy, ent_core, ent_msm, i, cnt) ]
        /\ ent_hist' = next_ent_hist(ent_hist, ent_phy, ent_core, ent_msm, o, i, cnt)

(* PhyHarness (test_phy.py): simulate = True leaves the link inputs at 0,   *)
(* and the input phys are quiet.                                            *)
PhyTick ==
    \E o \in HostEvents(ent_msm) :
        \E cnt \in (IF ent_phy.read /\ ent_phy.read_counters THEN CounterValues ELSE {0}) :
            EntClock(o, ZeroLink, NoEdge, NoEdge, cnt)

(* The host reads registers around runs of an enabled standalone core; the  *)
(* counters are 32 bits wide (counter_width=32 in EntanglerCore) and hold    *)
(* values below and above 2^14.                                              *)
WideCounterValues == { 5, Pow2(event_counter_width) + 5 }

WideReadAddresses ==
    { ADDR_R_NCYCLES, ADDR_R_TIMEREMAINING,
      ADDR_R_COUNTER_RESULT_BASE, ADDR_R_COUNTER_RESULT_BASE + 4 }

ReadHostEvents(s) ==
    {NoEvent} \cup { OutputEvent(a, 0) : a \in WideReadAddresses }
    \cup (IF s.running THEN {}
          ELSE { OutputEvent(ADDR_W_RUN, MaxTime), OutputEvent(ADDR_W_CONFIG, Pow2(3) - 1) })

ReadTick ==
    \E o \in ReadHostEvents(ent_msm) :
        \E cnt \in (IF ent_phy.read /\ ent_phy.read_counters
                    THEN WideCounterValues ELSE {0}) :
            EntClock(o, ZeroLink, NoEdge, NoEdge, cnt)

(* EntanglerCore with the link and the phys of APD 0 and of the reference   *)
(* connected.  The host has written CONFIG (enable and a role), TCYCLE,     *)
(* HERALD and the gate of APD 0, and from then on writes RUN only.          *)
CoreHeraldWords == { Pow2(16), Pow2(16) + 1 }

CoreConfigured(is_master, standalone, m_end, herald_word, gate_start, gate_stop) ==
    /\ ent_msm = MsmReset(is_master, standalone, m_end)
    /\ ent_core = [ EntCoreReset(gate_start, gate_stop) EXCEPT
                      !.enable = TRUE,
                      !.patterns = << Slice(herald_word, 0, 4), Slice(herald_word, 4, 8),
                                      Slice(herald_word, 8, 12), Slice(herald_word, 12, 16) >>,
                      !.pattern_ens = Slice(herald_word, 16, 20) ]
    /\ ent_phy = EntPhyReset
    /\ ent_in = [stb |-> FALSE, address |-> 0, cnt |-> 0, i_stb |-> FALSE, i_data |-> 0]
    /\ ent_hist = [ budget |-> 0, late |-> FALSE, T_pos |-> FALSE,
                    dones |-> 0, events |-> 0, event_data |-> 0, clean |-> FALSE ]

CoreInit ==
    \E im \in BOOLEAN, sa \in BOOLEAN, w \in CoreHeraldWords :
        CoreConfigured(im, sa, MaxMEnd, w, 8, 15)

(* Edges fall on the coarse clock (fine_ts = 0). *)
CoreEdges == { [stb_rising |-> TRUE, fine_ts |-> 0], NoEdge }

(* The host starts a run and awaits its completion. *)
CoreHostEvents(s) ==
    IF s.running THEN {NoEvent} ELSE {NoEvent, OutputEvent(ADDR_W_RUN, MaxTime)}

(* The link: the master of a slave has not timed out. *)
CoreLinkInputs(s) == { l \in LinkInputsRead(s) : ~l.timeout_in_raw }

CoreTick ==
    \E o \in CoreHostEvents(ent_msm), l \in CoreLinkInputs(ent_msm),
       ref \in CoreEdges, sig \in CoreEdges :
        EntClock(o, l, ref, sig, 0)

----------------------------------------------------------------------------
(* ChannelSequencer, wired as in EntanglerCore: it reads the time cursor m of *)
(* the main state machine and is cleared by cycle_starting.                   *)

stb_start_one_late(q, m) == m = q.m_start + 1

stb_start(q, m) == m = q.m_start

stb_stop(q, m) == m = q.m_stop

(* The output register with stb_stop given priority over stb_start. *)
next_output_stop_first(q, m, clear) ==
    IF clear THEN FALSE
    ELSE IF stb_stop(q, m) THEN FALSE
    ELSE IF stb_start(q, m) THEN TRUE
    ELSE q.output

(* The output register: the later statement If(clear, output.eq(0)) wins.  *)
(* next_output with stb_start taking priority over clear. *)
next_output_start_over_clear(q, m, clear) ==
    IF stb_start(q, m) THEN TRUE
    ELSE IF clear THEN FALSE
    ELSE IF stb_stop(q, m) THEN FALSE
    ELSE q.output

next_output(q, m, clear) ==
    IF clear THEN FALSE
    ELSE IF stb_start(q, m) THEN TRUE
    ELSE IF stb_stop(q, m) THEN FALSE
    ELSE q.output

SeqStep(q, m, clear) == [q EXCEPT !.output = next_output(q, m, clear)]

SeqReset(m_start, m_stop) ==
    [ m_start |-> m_start, m_stop |-> m_stop, output |-> FALSE ]

(* The sequencer's edge times explored: every value the cursor takes, and *)
(* one it never takes.                                                    *)
SeqTimes == 0..(MaxMEnd + 2)

(* The host starts a run when none is in progress, with the same budget. *)
SeqMsmInputs(s) ==
    { i \in MsmInputs : i.run_stb => (~s.running /\ i.time_remaining_buf = MaxTime) }

(* History of the sequencer.  high: clocks with output = 1 since the attempt *)
(* in progress (or the last one) left IDLE, at most 3; ended: that attempt   *)
(* has returned to IDLE.                                                     *)
next_seq_hist(h, q, s, i) ==
    LET leaving == s.state = "IDLE" /\ next_state(s, i) # "IDLE"
        out     == next_output(q, s.m, cycle_starting(s))
    IN  [ high  |-> IF leaving THEN 0
                    ELSE IF out /\ h.high < 3 THEN h.high + 1
                    ELSE h.high,
          ended |-> IF leaving THEN FALSE
                    ELSE h.ended \/ (s.state # "IDLE" /\ next_state(s, i) = "IDLE") ]

SeqConfigured(m_start, m_stop) ==
    /\ seq = SeqReset(m_start, m_stop)
    /\ seq_hist = [ high |-> 0, ended |-> FALSE ]

SeqInit == \E a \in SeqTimes, b \in SeqTimes : SeqConfigured(a, b)

SeqIdle == SeqConfigured(0, 0)

(* One clock edge of the main state machine and of the sequencer. *)
SeqTick ==
    /\ \E i \in SeqMsmInputs(msm), l \in LinkInputsRead(msm) :
          /\ Clock(i, l)
          /\ seq_hist' = next_seq_hist(seq_hist, seq, msm, i)
    /\ msm'.cycles_completed <= MaxCycles
    /\ seq' = SeqStep(seq, msm.m, cycle_starting(msm))
    /\ UNCHANGED runs

----------------------------------------------------------------------------
(* Heralder on its own, driven as heralder_test drives it: the patterns are  *)
(* set once, then pattern_ens and sig take every value.                      *)

HeraldPatterns == {0, 5, 9, 15}

HeralderEval(sig, patterns, pattern_ens) ==
    [ sig |-> sig, patterns |-> patterns, pattern_ens |-> pattern_ens,
      matches |-> MatchesOf(sig, patterns),
      herald |-> HeraldOf(pattern_ens, MatchesOf(sig, patterns)) ]

HeralderInit ==
    \E ps \in [1..n_patterns -> HeraldPatterns] : her = HeralderEval(0, ps, 0)

HeralderIdle == her = HeralderEval(0, [k \in 1..n_patterns |-> 0], 0)

(* yield dut.pattern_ens.eq(j) *)
SetPatternEns ==
    \E pattern_ens \in 0..(Pow2(n_patterns) - 1) :
        her' = HeralderEval(her.sig, her.patterns, pattern_ens)

(* yield dut.sig.eq(i) *)
SetSig ==
    \E sig \in 0..(Pow2(n_sig) - 1) :
        her' = HeralderEval(sig, her.patterns, her.pattern_ens)

HeralderTick == SetPatternEns \/ SetSig

----------------------------------------------------------------------------
(* The event counters of EntanglerCore: sig is heralder.sig, reset is       *)
(* msm.run_stb and read_stb is msm.cycle_ending.                            *)

(* SingleChannelCounter._match *)
SingleMatch(sig, target_idx) == Bit(sig, target_idx) = 1

(* PatternCounter._match *)
PatternMatch(sig, patterns) == \E k \in 1..4 : sig = patterns[k]

(* CounterBase.counter: the later statement If(reset, counter.eq(0)) wins. *)
next_counter(counter, match, read_stb, reset) ==
    IF reset THEN 0
    ELSE IF read_stb /\ match THEN counter + 1
    ELSE counter

CntStep(k, c, s, o) ==
    [ patterns |-> k.patterns,
      single   |-> next_counter(k.single, SingleMatch(heralder_sig(c), 0),
                                cycle_ending(s), run_stb(o)),
      pattern  |-> next_counter(k.pattern, PatternMatch(heralder_sig(c), k.patterns),
                                cycle_ending(s), run_stb(o)) ]

CntReset(patterns) == [ patterns |-> patterns, single |-> 0, pattern |-> 0 ]

(* History of the run: the attempts completed on the clocks after the last *)
(* run_stb in which gater 0 was triggered at the cycle end (single), and in *)
(* which the trigger vector at the cycle end equalled one of the patterns   *)
(* of the pattern counter (pattern).                                        *)
next_cnt_hist(h, k, c, s, o) ==
    [ single  |-> IF run_stb(o) THEN 0
                  ELSE IF AttemptEnds(s) /\ SingleMatch(heralder_sig(c), 0)
                       THEN h.single + 1
                  ELSE h.single,
      pattern |-> IF run_stb(o) THEN 0
                  ELSE IF AttemptEnds(s) /\ PatternMatch(heralder_sig(c), k.patterns)
                       THEN h.pattern + 1
                  ELSE h.pattern ]

CntConfigured(patterns) ==
    /\ ent_cnt = CntReset(patterns)
    /\ ent_cnt_hist = [ single |-> 0, pattern |-> 0 ]

CntIdle == CntConfigured(<<0, 0, 0, 0>>)

(* patterns_to_reg([0b0000] * 4), the reset value, and patterns_to_reg([0b0001] * 4) *)
CounterPatterns == { <<0, 0, 0, 0>>, <<1, 1, 1, 1>> }

(* A stand-alone device and a slave; the cycle length is one clock or MaxMEnd + 1. *)
CntInit ==
    /\ \E sa \in BOOLEAN, m_end \in {0, MaxMEnd} :
          CoreConfigured(sa, sa, m_end, Pow2(16) + 1, 8, 15)
    /\ \E ps \in CounterPatterns : CntConfigured(ps)

(* One clock edge of the core and of its counters. *)
CntTick ==
    \E o \in CoreHostEvents(ent_msm), l \in CoreLinkInputs(ent_msm),
       ref \in CoreEdges, sig \in CoreEdges :
        /\ EntClock(o, l, ref, sig, 0)
        /\ ent_cnt' = CntStep(ent_cnt, ent_core, ent_msm, o)
        /\ ent_cnt'.single <= MaxCount /\ ent_cnt'.pattern <= MaxCount
        /\ ent_cnt_hist' = next_cnt_hist(ent_cnt_hist, ent_cnt, ent_core, ent_msm, o)

----------------------------------------------------------------------------
(* Two executions of one stand-alone MainStateMachine that receive the same  *)
(* configuration, run_stb, time_remaining_buf and herald on every clock and  *)
(* different raw link inputs.                                                *)

AllLink ==
    [ trigger_in_raw |-> TRUE, success_in_raw |-> TRUE,
      timeout_in_raw |-> TRUE, slave_ready_raw |-> TRUE ]

(* The link inputs of the second execution: the partner silent, or driving *)
(* every line.                                                             *)
SecondLinkInputs == { ZeroLink, AllLink }

(* run_stb with one budget, on any clock. *)
ExMsmInputs == { i \in MsmInputs : i.run_stb => i.time_remaining_buf = MaxTime }

ExConfigured(is_master, m_end) ==
    /\ ex_a = MsmReset(is_master, TRUE, m_end)
    /\ ex_b = MsmReset(is_master, TRUE, m_end)
    /\ ex_out = [ done_stb_a |-> FALSE, done_stb_b |-> FALSE ]

ExInit == \E im \in BOOLEAN, me \in {0, MaxMEnd} : ExConfigured(im, me)

ExIdle == ExConfigured(FALSE, 0)

ExTick ==
    \E i \in ExMsmInputs, la \in LinkInputs, lb \in SecondLinkInputs :
        /\ ex_a' = MsmStep(ex_a, i, la)
        /\ ex_b' = MsmStep(ex_b, i, lb)
        /\ ex_out' = [ done_stb_a |-> done_stb(ex_a, i), done_stb_b |-> done_stb(ex_b, i) ]
        /\ ex_a'.cycles_completed <= MaxCycles
        /\ ex_b'.cycles_completed <= MaxCycles

----------------------------------------------------------------------------
(* The driver's set_heralds: patterns_to_reg packs the list, the word is    *)
(* written to ADDR_W_HERALD and the register interface decodes it.          *)

(* a | b of two non-negative words *)
RECURSIVE BitOr(_, _)
BitOr(a, b) ==
    IF a = 0 THEN b
    ELSE IF b = 0 THEN a
    ELSE (IF a % 2 = 1 \/ b % 2 = 1 THEN 1 ELSE 0) + 2 * BitOr(a \div 2, b \div 2)

(* The loop of patterns_to_reg from index i on (i counts from 1). *)
RECURSIVE PatternsToRegFrom(_, _, _)
PatternsToRegFrom(patterns, i, data) ==
    IF i > Len(patterns) THEN data
    ELSE PatternsToRegFrom(patterns, i + 1,
            BitOr(BitOr(data, BitAnd(patterns[i], 15) * Pow2(4 * (i - 1))),
                  Pow2(16 + (i - 1))))

patterns_to_reg(patterns) == PatternsToRegFrom(patterns, 1, 0)

(* The values a caller lists: patterns, one of them wider than 4 bits. *)
HeraldValues == {0, 5, 25}

HeraldLists == UNION { [1..n -> HeraldValues] : n \in 1..n_patterns }

DrvReset == [ heralds |-> << >>, patterns |-> <<0, 0, 0, 0>>, pattern_ens |-> 0 ]

DrvIdle == drv = DrvReset

(* set_heralds(heralds) on the registers c *)
SetHeralds(c, heralds) ==
    LET o == OutputEvent(ADDR_W_HERALD, patterns_to_reg(heralds))
    IN  [ heralds     |-> heralds,
          patterns    |-> next_patterns(c, o),
          pattern_ens |-> next_pattern_ens(c, o) ]

DrvTick == \E heralds \in HeraldLists : drv' = SetHeralds(drv, heralds)

----------------------------------------------------------------------------
(* The write side of the register interface: every register an output event *)
(* can write.  output_t_starts/output_t_ends[0..3] are the sequencers'      *)
(* m_start/m_stop, [4..7] the gaters' gate_start/gate_stop;                 *)
(* counter_patterns[j] are the patterns of pattern_counters[j].             *)
MaxWrites == 2

n_timings == 8
n_pattern_counters == 4

write_patterns(o) == Slice(o.address, 3, 6) = 2

(* len(output_t_starts[i]) *)
timing_width(i) == IF i < 4 THEN counter_width ELSE gate_width

next_output_t_starts(r, o) ==
    IF o.stb /\ write_timings(o)
    THEN [ r.output_t_starts EXCEPT
             ![Slice(o.address, 0, 3)] =
                 Slice(o.data, 0, 16) % Pow2(timing_width(Slice(o.address, 0, 3))) ]
    ELSE r.output_t_starts

next_output_t_ends(r, o) ==
    IF o.stb /\ write_timings(o)
    THEN [ r.output_t_ends EXCEPT
             ![Slice(o.address, 0, 3)] =
                 Slice(o.data, 16, 32) % Pow2(timing_width(Slice(o.address, 0, 3))) ]
    ELSE r.output_t_ends

(* The element an Array of n choices selects for key k: a key past the end  *)
(* selects the last choice.                                                 *)
ArrayIndex(k, n) == IF k < n THEN k ELSE n - 1

next_counter_patterns(r, o) ==
    IF o.stb /\ write_patterns(o)
    THEN [ r.counter_patterns EXCEPT
             ![ArrayIndex(Slice(o.address, 0, 3), n_pattern_counters)] =
                 << Slice(o.data, 0, 4), Slice(o.data, 4, 8),
                    Slice(o.data, 8, 12), Slice(o.data, 12, 16) >> ]
    ELSE r.counter_patterns

RegStep(r, o) ==
    [ enable           |-> next_enable(r, o),
      is_master        |-> next_is_master(r, o),
      standalone       |-> next_standalone(r, o),
      m_end            |-> next_m_end(r, o),
      patterns         |-> next_patterns(r, o),
      pattern_ens      |-> next_pattern_ens(r, o),
      output_t_starts  |-> next_output_t_starts(r, o),
      output_t_ends    |-> next_output_t_ends(r, o),
      counter_patterns |-> next_counter_patterns(r, o) ]

(* en_out of the link buffers (ts_buf) of EntanglerCore *)
en_out_ready(r) == ~r.is_master /\ ~r.standalone

en_out_422ps(r) == ~r.is_master

en_out_trigger(r) == r.is_master

en_out_success(r) == r.is_master

en_out_timeout(r) == r.is_master

RegReset ==
    [ enable           |-> FALSE,
      is_master        |-> FALSE,
      standalone       |-> FALSE,
      m_end            |-> 0,
      patterns         |-> <<0, 0, 0, 0>>,
      pattern_ens      |-> 0,
      output_t_starts  |-> [i \in 0..(n_timings - 1) |-> 0],
      output_t_ends    |-> [i \in 0..(n_timings - 1) |-> 0],
      counter_patterns |-> [j \in 0..(n_pattern_counters - 1) |-> <<0, 0, 0, 0>>] ]

RegInit ==
    /\ rf = RegReset
    /\ rf_in = NoEvent
    /\ rf_hist = [prev |-> RegReset, writes |-> 0]

RegIdle == RegInit

(* The data words of the events: all config bits; a cycle length with bit   *)
(* 10 set; start = 2^11 + 1 and stop = 2^14 + 2 in the two halves.          *)
TimingWord(start, stop) == stop * Pow2(16) + start

RegWords ==
    { 0, Pow2(3) - 1, Pow2(10) + 3, TimingWord(Pow2(11) + 1, Pow2(14) + 2) }

(* Addresses: the mapped write addresses of each group, write addresses     *)
(* outside the map, and read addresses.                                     *)
RegAddresses ==
    { 0, 1, 2, 3, 5, 8, 11, 12, 15, 16, 19, 20, 24, 32, 34, 40, 48 }

RegEvents ==
    { OutputEvent(a, d) : a \in RegAddresses, d \in RegWords }
    \cup { [stb |-> FALSE, address |-> ADDR_W_TCYCLE, data |-> Pow2(3) - 1] }

RegTick ==
    /\ rf_hist.writes < MaxWrites
    /\ \E o \in RegEvents :
          /\ rf' = RegStep(rf, o)
          /\ rf_in' = o
          /\ rf_hist' = [prev |-> rf, writes |-> rf_hist.writes + 1]

AuxIdle == SeqIdle /\ HeralderIdle /\ CntIdle /\ ExIdle /\ DrvIdle /\ RegIdle

Init == MsmInit /\ PairIdle /\ GaterIdle /\ EntInit /\ AuxIdle

Next == Tick /\ UNCHANGED pair_vars /\ UNCHANGED gater_vars /\ UNCHANGED ent_vars
    /\ UNCHANGED aux_vars

Spec == Init /\ [][Next]_vars

LiveNext == TickSingleRun /\ UNCHANGED pair_vars /\ UNCHANGED gater_vars /\ UNCHANGED ent_vars
    /\ UNCHANGED aux_vars

LiveSpec == Init /\ [][LiveNext]_vars /\ WF_vars(LiveNext)

PairSpecInit == MsmIdle /\ PairInit /\ GaterIdle /\ EntInit /\ AuxIdle

PairNext == PairTick /\ UNCHANGED msm_vars /\ UNCHANGED gater_vars /\ UNCHANGED ent_vars
    /\ UNCHANGED aux_vars

PairSpec == PairSpecInit /\ [][PairNext]_vars

PairRerunSpecInit == MsmIdle /\ PairRerunInit /\ GaterIdle /\ EntInit /\ AuxIdle

PairRerunNext == PairRerunTick /\ UNCHANGED msm_vars /\ UNCHANGED gater_vars
    /\ UNCHANGED ent_vars /\ UNCHANGED aux_vars

PairRerunSpec == PairRerunSpecInit /\ [][PairRerunNext]_vars

GaterSpecInit == MsmIdle /\ PairIdle /\ GaterInit /\ EntInit /\ AuxIdle

GaterNext == GaterTick /\ UNCHANGED msm_vars /\ UNCHANGED pair_vars /\ UNCHANGED ent_vars
    /\ UNCHANGED aux_vars

GaterSpec == GaterSpecInit /\ [][GaterNext]_vars

PhySpecInit == MsmIdle /\ PairIdle /\ GaterIdle /\ EntInit /\ AuxIdle

PhyNext == PhyTick /\ UNCHANGED msm_vars /\ UNCHANGED pair_vars /\ UNCHANGED gater_vars
    /\ UNCHANGED aux_vars

PhySpec == PhySpecInit /\ [][PhyNext]_vars

ReadSpecInit == MsmIdle /\ PairIdle /\ GaterIdle /\ EntInit /\ AuxIdle

ReadNext == ReadTick /\ UNCHANGED msm_vars /\ UNCHANGED pair_vars /\ UNCHANGED gater_vars
    /\ UNCHANGED aux_vars

ReadSpec == ReadSpecInit /\ [][ReadNext]_vars

CoreSpecInit == MsmIdle /\ PairIdle /\ GaterIdle /\ CoreInit /\ AuxIdle

CoreNext == CoreTick /\ UNCHANGED msm_vars /\ UNCHANGED pair_vars /\ UNCHANGED gater_vars
    /\ UNCHANGED aux_vars

CoreSpec == CoreSpecInit /\ [][CoreNext]_vars

SeqSpecInit ==
    /\ \E im \in BOOLEAN, sa \in BOOLEAN : MsmConfigured(im, sa, MaxMEnd)
    /\ PairIdle /\ GaterIdle /\ EntInit /\ SeqInit /\ HeralderIdle /\ CntIdle /\ ExIdle
    /\ DrvIdle /\ RegIdle

SeqNext == SeqTick /\ UNCHANGED pair_vars /\ UNCHANGED gater_vars /\ UNCHANGED ent_vars
    /\ UNCHANGED her /\ UNCHANGED cnt_vars /\ UNCHANGED ex_vars /\ UNCHANGED drv /\ UNCHANGED rf_vars

SeqSpec == SeqSpecInit /\ [][SeqNext]_vars

HeralderSpecInit ==
    /\ MsmIdle /\ PairIdle /\ GaterIdle /\ EntInit /\ SeqIdle /\ HeralderInit
    /\ CntIdle /\ ExIdle /\ DrvIdle /\ RegIdle

HeralderNext == HeralderTick /\ UNCHANGED msm_vars /\ UNCHANGED pair_vars
    /\ UNCHANGED gater_vars /\ UNCHANGED ent_vars /\ UNCHANGED seq_vars
    /\ UNCHANGED cnt_vars /\ UNCHANGED ex_vars /\ UNCHANGED drv /\ UNCHANGED rf_vars

HeralderSpec == HeralderSpecInit /\ [][HeralderNext]_vars

CntSpecInit ==
    /\ MsmIdle /\ PairIdle /\ GaterIdle /\ SeqIdle /\ HeralderIdle /\ CntInit
    /\ ExIdle /\ DrvIdle /\ RegIdle

CntNext == CntTick /\ UNCHANGED msm_vars /\ UNCHANGED pair_vars /\ UNCHANGED gater_vars
    /\ UNCHANGED seq_vars /\ UNCHANGED her /\ UNCHANGED ex_vars /\ UNCHANGED drv /\ UNCHANGED rf_vars

CntSpec == CntSpecInit /\ [][CntNext]_vars

ExSpecInit ==
    /\ MsmIdle /\ PairIdle /\ GaterIdle /\ EntInit
    /\ SeqIdle /\ HeralderIdle /\ CntIdle /\ ExInit /\ DrvIdle /\ RegIdle

ExNext == ExTick /\ UNCHANGED msm_vars /\ UNCHANGED pair_vars /\ UNCHANGED gater_vars
    /\ UNCHANGED ent_vars /\ UNCHANGED seq_vars /\ UNCHANGED her /\ UNCHANGED cnt_vars
    /\ UNCHANGED drv /\ UNCHANGED rf_vars

ExSpec == ExSpecInit /\ [][ExNext]_vars

DrvSpecInit ==
    /\ MsmIdle /\ PairIdle /\ GaterIdle /\ EntInit
    /\ SeqIdle /\ HeralderIdle /\ CntIdle /\ ExIdle /\ DrvIdle /\ RegIdle

DrvNext == DrvTick /\ UNCHANGED msm_vars /\ UNCHANGED pair_vars /\ UNCHANGED gater_vars
    /\ UNCHANGED ent_vars /\ UNCHANGED seq_vars /\ UNCHANGED her /\ UNCHANGED cnt_vars
    /\ UNCHANGED ex_vars /\ UNCHANGED rf_vars

DrvSpec == DrvSpecInit /\ [][DrvNext]_vars

RegSpecInit ==
    /\ MsmIdle /\ PairIdle /\ GaterIdle /\ EntInit
    /\ SeqIdle /\ HeralderIdle /\ CntIdle /\ ExIdle /\ DrvIdle /\ RegInit

RegNext == RegTick /\ UNCHANGED msm_vars /\ UNCHANGED pair_vars /\ UNCHANGED gater_vars
    /\ UNCHANGED ent_vars /\ UNCHANGED seq_vars /\ UNCHANGED her /\ UNCHANGED cnt_vars
    /\ UNCHANGED ex_vars /\ UNCHANGED drv

RegSpec == RegSpecInit /\ [][RegNext]_vars

----------------------------------------------------------------------------
(* C1: done_stb is asserted on at most one clock per run: never on two       *)
(* consecutive clocks, never a second time before the next run_stb           *)
(* (done_count counts the pulses since the last run_stb), and never while    *)
(* running = 0.                                                              *)
C1_DoneStbOncePerRun ==
    /\ [](done_count <= 1)
    /\ [][done_stb(msm, msm_in') => (msm.running /\ done_count = 0 /\ ~msm'.running)]_vars

(* A run has completed: its one done_stb pulse was seen and running is cleared. *)
C1_Witness == done_count = 1 /\ ~msm.running /\ msm.cycles_completed > 0

(* C2: every run terminates.  After a run_stb that no further run_stb       *)
(* follows, whatever the role, the time budget, the link inputs and herald, *)
(* the device ends at rest in IDLE with running = 0, and the run has pulsed *)
(* done_stb.                                                                *)
C2_RunTerminates ==
    <>[](/\ msm.state = "IDLE"
         /\ ~msm.running
         /\ ~msm.ready
         /\ (runs > 0 => done_count = 1))

C2_Witness ==
    /\ runs = 1
    /\ done_count = 1
    /\ msm.state = "IDLE"
    /\ ~msm.running
    /\ ~act_as_master(msm)
    /\ msm.cycles_completed > 0

(* C7: master and slave agree on success: once both devices of the pair have *)
(* pulsed done_stb for their run, master.success = slave.success.            *)
C7_PairAgreesOnSuccess ==
    (pair_hist.master_done /\ pair_hist.slave_done)
        => (master.success = slave.success)

(* C8: after a successful attempt on a synchronised pair (sync_age = 1 on   *)
(* the clock after the attempt's last COUNTER clock) the master pulses      *)
(* done_stb on that clock and the slave exactly two clocks later, neither   *)
(* pulses it on another of these clocks, and each has success = 1 at its    *)
(* own done_stb.                                                            *)
C8_DoneWithinTwoClocks ==
    [][ /\ pair_hist.sync_age = 1 =>
              /\ ~pair_hist.master_done /\ ~pair_hist.slave_done
              /\ done_stb(master, pair_in'.master) /\ master.success
              /\ ~done_stb(slave, pair_in'.slave)
        /\ pair_hist.sync_age = 2 =>
              /\ ~done_stb(master, pair_in'.master)
              /\ ~done_stb(slave, pair_in'.slave)
        /\ pair_hist.sync_age = 3 =>
              /\ ~done_stb(master, pair_in'.master)
              /\ done_stb(slave, pair_in'.slave) /\ slave.success
      ]_vars

(* The clock after the slave's done_stb of a synchronised successful attempt. *)
C8_Witness ==
    /\ pair_hist.sync_age = 4
    /\ pair_hist.master_done /\ pair_hist.slave_done
    /\ master.success /\ slave.success
    /\ ~master.running /\ ~slave.running
    /\ master.m_end > 0

(* C9: gate window.  In an attempt with one reference edge at ref_t and one *)
(* signal edge at sig_t, with gate_start >= 8 and no overflow of the window *)
(* sums, triggered = 1 if and only if                                       *)
(* gate_start <= sig_t - ref_t <= gate_stop.                                *)
C9_GateWindow ==
    ( /\ gater_hist.ref_count = 1
      /\ gater_hist.sig_count = 1
      /\ gater.gate_start >= 8
      /\ gater.gate_stop + gater_hist.ref_t < Pow2(ts_width) )
    => ( gater.triggered <=>
           ( /\ gater.gate_start <= gater_hist.sig_t - gater_hist.ref_t
             /\ gater_hist.sig_t - gater_hist.ref_t <= gater.gate_stop ) )

(* C10: a gater never reports triggered = 1 while got_ref = 0. *)
C10_TriggeredNeedsRef == gater.triggered => gater.got_ref

----------------------------------------------------------------------------
(* The msm inputs of the clock recorded in an ent_in: done_stb reads        *)
(* run_stb only.                                                            *)
LoggedMsmInput(log) ==
    [ run_stb            |-> log.stb /\ log.address = ADDR_W_RUN,
      time_remaining_buf |-> 0,
      herald             |-> FALSE ]

(* The register map of the host (driver.py): the datum a read address names *)
RegisterMap(address, s, c, cnt) ==
    CASE address = ADDR_R_STATUS -> status(s)
      [] address = ADDR_R_NCYCLES -> s.cycles_completed
      [] address = ADDR_R_TIMESTAMP_422PS -> c.apd.ref_ts
      [] address = ADDR_R_COUNTER_RESULT_BASE -> cnt

(* C3: bounded timeout response.  A run of a standalone, enabled core whose *)
(* herald never matches, started with a time budget T >= 1, gives exactly   *)
(* one completion event, with datum 0x3FFF, no later than T + m_end + 5     *)
(* clocks after the run_stb.                                                *)
C3_TimeoutResponse ==
    (ent_hist.clean /\ ent_hist.T_pos)
    => ( /\ ~ent_hist.late
         /\ ent_hist.events <= 1
         /\ ent_hist.events = 1 => ent_hist.event_data = TimeoutDatum )

C3_Witness ==
    /\ ent_hist.clean
    /\ ent_hist.T_pos
    /\ ent_hist.events = 1
    /\ ent_hist.event_data = TimeoutDatum
    /\ ent_msm.cycles_completed > 0
    /\ ~ent_msm.running

(* C4: on the clock of done_stb with enable high the datum of the input    *)
(* event is 0x3FFF if and only if success = 0; otherwise it equals          *)
(* heralder.matches on that clock and has at least one bit set.             *)
C4_CompletionDatum ==
    [][ (ent_core.enable /\ done_stb(ent_msm, LoggedMsmInput(ent_in')))
        => ( /\ ent_in'.i_stb
             /\ (ent_in'.i_data = TimeoutDatum) <=> ~ent_msm.success
             /\ ent_msm.success
                  => (ent_in'.i_data = matches(ent_core) /\ ent_in'.i_data # 0) ) ]_vars

(* C5: the interface gives an input event on a clock if and only if a read  *)
(* reply is pending or enable and done_stb hold; with enable low a run      *)
(* still completes (done_stb, running cleared) without an input event for   *)
(* done_stb.                                                                *)
C5_InputEventPolicy ==
    [][ LET dstb == done_stb(ent_msm, LoggedMsmInput(ent_in'))
        IN  /\ ent_in'.i_stb <=> (ent_phy.read \/ (ent_core.enable /\ dstb))
            /\ (dstb /\ ~ent_core.enable)
                 => ( /\ ~ent_msm'.running
                      /\ ent_hist'.events = ent_hist.events
                      /\ ent_hist'.dones = 1 )
            /\ (dstb /\ ent_core.enable) => ent_hist'.events = 1 ]_vars

C5_Witness ==
    /\ ~ent_core.enable
    /\ ent_hist.dones = 1
    /\ ent_hist.events = 0
    /\ ~ent_in.i_stb
    /\ ~ent_msm.running
    /\ ent_msm.cycles_completed > 0
    /\ status(ent_msm) \in {2, 4}

(* C6, as stated: every output event on a read address gives exactly one    *)
(* input event, on the following clock, carrying the datum the address      *)
(* selects; an input event that is not a completion event follows a read.   *)
C6_ReadReply ==
    [][ LET dstb == done_stb(ent_msm, LoggedMsmInput(ent_in'))
            was_read == ent_in.stb /\ read_en(ent_in)
        IN  /\ was_read
                 => ( /\ ent_in'.i_stb
                      /\ ent_in'.i_data
                           = RegisterMap(ent_in.address, ent_msm, ent_core, ent_in'.cnt) )
            /\ ~was_read => (ent_in'.i_stb <=> (ent_core.enable /\ dstb)) ]_vars

(* C6, amended: the reply carries the selected datum unless a completion    *)
(* event falls on the same clock; then the one input event of that clock    *)
(* carries the completion datum.                                            *)
C6_ReadReplyUnlessCompletion ==
    [][ LET dstb == done_stb(ent_msm, LoggedMsmInput(ent_in'))
            was_read == ent_in.stb /\ read_en(ent_in)
        IN  /\ was_read
                 => ( /\ ent_in'.i_stb
                      /\ ~(ent_core.enable /\ dstb)
                           => ent_in'.i_data
                                = RegisterMap(ent_in.address, ent_msm, ent_core, ent_in'.cnt) )
            /\ ~was_read => (ent_in'.i_stb <=> (ent_core.enable /\ dstb)) ]_vars

(* A reply to a read of NCYCLES during a run, on a clock that carries the   *)
(* next read event.                                                         *)
C6_Witness ==
    /\ ent_in.i_stb
    /\ ent_in.i_data = 1
    /\ ent_phy.read
    /\ ent_phy.read_addr = 1
    /\ ent_in.stb
    /\ ent_in.address = ADDR_R_NCYCLES
    /\ ent_msm.running
    /\ ent_hist.events = 0
    /\ ent_msm.cycles_completed = 1

----------------------------------------------------------------------------
InGateWindow(g) == g.abs_gate_start <= g.sig_ts /\ g.sig_ts <= g.abs_gate_stop

(* C11, as stated: in every state of an InputGater with triggered = 1 the   *)
(* latched sig_ts lies in the stored window, abs_gate_start <= sig_ts <=    *)
(* abs_gate_stop, also after further reference edges.                       *)
C11_TriggeredInWindow == gater.triggered => InGateWindow(gater)

(* C11, amended: with triggered = 1 the latched sig_ts lies in the stored   *)
(* window as long as no reference edge has arrived on the clock that        *)
(* latched the signal edge or after it.                                     *)
C11_TriggeredInWindowUntilNextRef ==
    (gater.triggered /\ ~gater_hist.ref_after_latch) => InGateWindow(gater)

(* Triggered on the last fine timestamp of a window opened by a reference   *)
(* edge, after more than one reference edge in the attempt.                 *)
C11_Witness ==
    /\ gater.triggered
    /\ gater.got_ref
    /\ ~gater_hist.ref_after_latch
    /\ gater_hist.ref_count = 2
    /\ gater.sig_ts = gater.abs_gate_stop
    /\ gater.sig_ts > gater.abs_gate_start

(* C12, as stated: while running = 1 the time cursor satisfies
   0 <= m <= m_end, in every FSM state and in both roles. *)
C12_CursorWithinAttempt ==
    msm.running => (0 <= msm.m /\ msm.m <= msm.m_end)

(* C12, amended: while running = 1 the time cursor satisfies
   0 <= m <= m_end + 1; it is at most m_end in COUNTER, it is 0 in
   TRIGGER_SLAVE and TRIGGER_SLAVE2, and it is m_end + 1 in the states that
   follow the last COUNTER clock of an attempt (the IDLE clock, and for a
   slave SLAVE_SUCCESS_WAIT and SLAVE_SUCCESS_CHECK before it). *)
C12_CursorOvershootsByOne ==
    msm.running =>
        /\ 0 <= msm.m /\ msm.m <= msm.m_end + 1
        /\ msm.state = "COUNTER" => msm.m <= msm.m_end
        /\ msm.state \in {"TRIGGER_SLAVE", "TRIGGER_SLAVE2"} => msm.m = 0
        /\ msm.state \in {"SLAVE_SUCCESS_WAIT", "SLAVE_SUCCESS_CHECK"}
               => msm.m = msm.m_end + 1

C12_Witness ==
    /\ msm.running /\ msm.state = "IDLE" /\ msm.m = msm.m_end + 1
    /\ msm.cycles_completed = 2 /\ msm.m_end = MaxMEnd

(* C13, as stated: for a sequencer with 0 <= m_start < m_stop <= m_end the
   output is 1 exactly on the clocks with m_start < m <= m_stop, and 0 on
   every other clock, in every role. *)
C13_PulseWindow ==
    (seq.m_start < seq.m_stop /\ seq.m_stop <= msm.m_end)
        => (seq.output <=> (seq.m_start < msm.m /\ msm.m <= seq.m_stop))

(* C13, amended: the output is 1 exactly on the clocks with
   m_start < m <= m_stop when m_start >= 1 or the device is a slave; with
   m_start = 0 on a master or stand-alone device the output is 1 from
   TRIGGER_SLAVE2 on, through the COUNTER clocks with m <= m_stop. *)
C13_PulseWindowFromOne ==
    (seq.m_start < seq.m_stop /\ seq.m_stop <= msm.m_end)
        => IF seq.m_start = 0 /\ act_as_master(msm)
           THEN seq.output <=>
                    \/ msm.state = "TRIGGER_SLAVE2"
                    \/ (msm.state = "COUNTER" /\ msm.m <= seq.m_stop)
           ELSE seq.output <=> (seq.m_start < msm.m /\ msm.m <= seq.m_stop)

C13_Witness ==
    /\ seq.m_start = 1 /\ seq.m_stop = 2 /\ msm.m_end = 2
    /\ msm.state = "COUNTER" /\ msm.m = 2 /\ seq.output
    /\ msm.running /\ seq_hist.high = 1

(* C14, as stated: a sequencer with m_start = m_stop, the value being one
   the cursor reaches, has its output high for exactly one clock of the
   attempt. *)
C14_SingleClockPulse ==
    (seq.m_start = seq.m_stop /\ seq.m_start <= msm.m_end)
        => /\ seq_hist.high <= 1
           /\ seq_hist.ended => seq_hist.high = 1

(* C14, amended: with m_start = m_stop = v <= m_end the output rises on the
   clock after the first one with m = v and stays high until the clear of
   the next IDLE clock (stb_start has priority over stb_stop); it is high
   for exactly one clock only when v = m_end on a master or stand-alone
   device. *)
C14_HighUntilClear ==
    (seq.m_start = seq.m_stop /\ seq.m_start <= msm.m_end)
        => /\ seq.output <=>
                \/ msm.m > seq.m_start
                \/ /\ seq.m_start = 0 /\ act_as_master(msm)
                   /\ msm.state \in {"TRIGGER_SLAVE2", "COUNTER"}
           /\ seq_hist.ended =>
                (seq_hist.high = 1 <=>
                    (seq.m_start = msm.m_end /\ act_as_master(msm)))

C14_Witness ==
    /\ seq.m_start = 1 /\ seq.m_stop = 1 /\ msm.m_end = 2
    /\ msm.state = "IDLE" /\ msm.m = 3 /\ seq.output
    /\ seq_hist.ended /\ seq_hist.high = 2

(* C15: a sequencer with m_start = 0 and m_stop = 0 has its output at 0 on
   every clock. *)
C15_ZeroZeroDisables ==
    (seq.m_start = 0 /\ seq.m_stop = 0) => ~seq.output

(* C16: a sequencer with m_start > m_end has its output at 0 on every
   clock, in every role. *)
C16_StartBeyondEndNeverRises ==
    seq.m_start > msm.m_end => ~seq.output

(* C17: for every sig, every assignment of the patterns and every
   pattern_ens, matches[i] = (patterns[i] == sig) for each i, and herald = 1
   if and only if some i has pattern_ens[i] = 1 and patterns[i] == sig. *)
C17_HeraldIffEnabledMatch ==
    /\ \A k \in 1..n_patterns :
          Bit(her.matches, k - 1) = 1 <=> her.patterns[k] = her.sig
    /\ her.matches < Pow2(n_patterns)
    /\ her.herald <=>
          \E k \in 1..n_patterns :
              Bit(her.pattern_ens, k - 1) = 1 /\ her.patterns[k] = her.sig

(* A pattern that matches but is not enabled, beside an enabled one that
   does not match: matches is set for it and herald is 0. *)
C17_Witness ==
    /\ her.sig = 9 /\ her.patterns[3] = 9 /\ her.patterns[1] = 5
    /\ her.pattern_ens = 1 /\ Bit(her.matches, 2) = 1 /\ ~her.herald

(* C20, as stated: cycles_completed increments by exactly 1 on each clock
   on which cycle_ending is asserted and changes on no other clock except
   to 0 on a run_stb, and on the done_stb clock it equals the number of
   attempts completed in the run; for every m_end. *)
C20_CountsEveryCycleEnding ==
    [][ /\ cycle_ending(msm)
            => msm'.cycles_completed = msm.cycles_completed + 1
        /\ ~cycle_ending(msm)
            => msm'.cycles_completed =
                  IF msm_in'.run_stb THEN 0 ELSE msm.cycles_completed
        /\ done_stb(msm, msm_in')
            => msm.cycles_completed = msm_hist.attempts ]_vars

(* C20, amended: cycles_completed increments by exactly 1 on each COUNTER
   clock on which cycle_ending is asserted; on every other clock, those of
   IDLE, TRIGGER_SLAVE and TRIGGER_SLAVE2 with cycle_ending asserted
   included (m_end = 0), it is set to 0 by run_stb and otherwise keeps its
   value; on the done_stb clock it equals the number of attempts completed
   in the run, provided the run_stb of the run did not fall on a clock that
   completed an attempt. *)
C20_CountsAttemptEnds ==
    [][ /\ AttemptEnds(msm)
            => msm'.cycles_completed = msm.cycles_completed + 1
        /\ ~AttemptEnds(msm)
            => msm'.cycles_completed =
                  IF msm_in'.run_stb THEN 0 ELSE msm.cycles_completed
        /\ (done_stb(msm, msm_in') /\ ~msm_hist.run_on_ending)
            => msm.cycles_completed = msm_hist.attempts ]_vars

(* A run with m_end = 0 that has completed two attempts and is done. *)
C20_Witness ==
    /\ msm.m_end = 0 /\ ~msm.running /\ done_count = 1
    /\ msm.cycles_completed = 2 /\ msm_hist.attempts = 2
    /\ ~msm_hist.run_on_ending

(* C18: at every point of a run the count of a pattern counter equals the
   number of attempts of the run, since the last run_stb, whose trigger
   vector at the cycle end equalled at least one of the counter's patterns,
   a pattern held in several slots counting once; nothing is counted on a
   clock that is not the end of an attempt, for every m_end and pattern. *)
C18_PatternCountIsAttempts ==
    ent_msm.running => ent_cnt.pattern = ent_cnt_hist.pattern

(* C19: at every point of a run the count of single-channel counter 0
   equals the number of attempts of the run, since the last run_stb, in
   which gater 0 was triggered at the cycle end; on the clock after a
   run_stb the count is 0. *)
C19_SingleCountIsAttempts ==
    /\ ent_msm.running => ent_cnt.single = ent_cnt_hist.single
    /\ (ent_in.stb /\ ent_in.address = ADDR_W_RUN) => ent_cnt.single = 0

(* C21: on the clock after every clock with run_stb, time_remaining equals
   time_remaining_buf, ready = 1, running = 1, cycles_completed = 0 and
   success = 0, whatever the FSM state the run_stb fell in. *)
C21_RunStbReinitialises ==
    msm_in.run_stb =>
        /\ msm.time_remaining = msm_in.time_remaining_buf
        /\ msm.ready /\ msm.running
        /\ msm.cycles_completed = 0
        /\ ~msm.success

(* C22: a running slave whose timeout_in is asserted has timeout asserted;
   on an IDLE clock on which timeout_in is asserted and no run_stb arrives it
   starts no attempt and asserts done_stb, whatever its own time_remaining,
   so a timeout_in that rises during an attempt and stays ends the run on
   the first IDLE clock that follows. *)
C22_SlaveHonoursTimeoutIn ==
    [][ (~act_as_master(msm) /\ msm.running /\ msm.timeout_in)
            => /\ timeout(msm)
               /\ (msm.state = "IDLE" /\ ~msm_in'.run_stb)
                     => /\ done_stb(msm, msm_in')
                        /\ msm'.state = "IDLE"
                        /\ ~msm'.running ]_vars

(* A slave that completed one attempt and is done with its own timer at
   MaxTime - 1: timeout_in rose on the first COUNTER clock and stayed. *)
C22_Witness ==
    /\ ~act_as_master(msm) /\ msm.timeout_in /\ msm.m_end = MaxMEnd
    /\ msm.time_remaining = MaxTime - 1 /\ msm.cycles_completed = 1
    /\ ~msm.running /\ done_count = 1 /\ msm.state = "IDLE" /\ ~msm.success

(* What C23 observes of an execution. *)
Observed(s) ==
    [ state |-> s.state, m |-> s.m, ready |-> s.ready, success |-> s.success,
      timeout |-> timeout(s), cycles_completed |-> s.cycles_completed ]

(* C23: with standalone = 1, for either value of is_master, two executions
   that receive the same configuration, run_stb and herald and different
   raw link inputs agree on FSM state, m, ready, success, timeout,
   cycles_completed and done_stb on every clock. *)
C23_StandaloneIgnoresPartner ==
    /\ Observed(ex_a) = Observed(ex_b)
    /\ ex_out.done_stb_a = ex_out.done_stb_b

(* The two executions hold different link registers at the end of a
   completed attempt of a device with is_master = 0. *)
C23_Witness ==
    /\ ~ex_a.is_master /\ ex_a.standalone
    /\ ex_a.timeout_in /\ ex_a.trigger_in /\ ex_a.success_in /\ ex_a.slave_ready
    /\ ~ex_b.timeout_in /\ ~ex_b.trigger_in /\ ~ex_b.success_in /\ ~ex_b.slave_ready
    /\ ex_a.running /\ ex_a.cycles_completed = 1 /\ ex_a.time_remaining > 0
    /\ ex_a.state = "COUNTER"

(* C24: after set_heralds(hs) with 1 <= len(hs) <= 4, herald is asserted
   for a trigger vector v if and only if v equals hs[i] & 0xF for some
   listed i; the slots that are not listed are disabled. *)
C24_SetHeraldsContract ==
    Len(drv.heralds) >= 1 =>
        /\ \A v \in 0..(Pow2(n_sig) - 1) :
              HeraldOf(drv.pattern_ens, MatchesOf(v, drv.patterns))
                 <=> \E k \in 1..Len(drv.heralds) : v = drv.heralds[k] % 16
        /\ \A k \in 1..n_patterns :
              k > Len(drv.heralds) => Bit(drv.pattern_ens, k - 1) = 0

(* Two patterns listed, one wider than 4 bits, none of them 0: vector 9
   heralds, and vector 0, the value of the unlisted slots, does not. *)
C24_Witness ==
    /\ drv.heralds = <<5, 25>>
    /\ drv.patterns = <<5, 9, 0, 0>> /\ drv.pattern_ens = 3
    /\ HeraldOf(drv.pattern_ens, MatchesOf(9, drv.patterns))
    /\ ~HeraldOf(drv.pattern_ens, MatchesOf(0, drv.patterns))

----------------------------------------------------------------------------
(* C25: a write to the TCYCLE address stores the low 11 bits of the data
   word (counter_width, the width of the sequencers' m_start/m_stop) into
   m_end, taking effect on the clock following the strobe. *)
C25_TcycleStoresLow11Bits ==
    (rf_in.stb /\ rf_in.address = ADDR_W_TCYCLE)
        => rf.m_end = rf_in.data % Pow2(counter_width)

(* C26: a timing write with data word (stop << 16) | start to timing index
   i stores start and stop, each truncated to 14 bits, into channel i's
   start and stop registers, for sequencer and gater channels alike. *)
C26_TimingStores14Bits ==
    (rf_in.stb /\ write_timings(rf_in))
        => LET i == Slice(rf_in.address, 0, 3)
           IN  /\ rf.output_t_starts[i] = Slice(rf_in.data, 0, 16) % Pow2(14)
               /\ rf.output_t_ends[i] = Slice(rf_in.data, 16, 32) % Pow2(14)

(* The write addresses of the register map: CONFIG, RUN, TCYCLE, HERALD,
   the eight timing channels and the four pattern sets. *)
MappedWriteAddresses == (0..3) \cup (8..15) \cup (16..19)

(* C28: write decoding frame.  An output event on a read address or on an
   unmapped write address changes no configuration, timing, herald or
   pattern register and does not strobe run_stb; a timing or pattern-set
   write to index i changes only channel i's register pair or pattern set
   and leaves every other register unchanged. *)
C28_WriteFrame ==
    rf_in.stb =>
        LET i == Slice(rf_in.address, 0, 3)
            prev == rf_hist.prev
        IN  /\ (read_en(rf_in) \/ rf_in.address \notin MappedWriteAddresses)
                 => (rf = prev /\ ~run_stb(rf_in))
            /\ rf_in.address \in 8..15
                 => rf = [ prev EXCEPT
                             !.output_t_starts[i] = rf.output_t_starts[i],
                             !.output_t_ends[i] = rf.output_t_ends[i] ]
            /\ rf_in.address \in 16..19
                 => rf = [ prev EXCEPT
                             !.counter_patterns[i] = rf.counter_patterns[i] ]

----------------------------------------------------------------------------
(* C29, as stated: on every clock without run_stb, time_remaining decreases
   by exactly 1 if the run is active (running = 1) and timeout is not
   asserted, and is otherwise unchanged; it never wraps below 0 and does not
   change after the run has completed. *)
C29_CountdownOnlyWhileRunning ==
    [][ ~msm_in'.run_stb
          => /\ msm'.time_remaining =
                   (IF msm.running /\ ~timeout(msm)
                    THEN msm.time_remaining - 1 ELSE msm.time_remaining)
             /\ msm'.time_remaining >= 0 ]_vars

(* C29, amended: on every clock without run_stb, time_remaining decreases
   by exactly 1 if timeout is not asserted, whether or not a run is active,
   and is otherwise unchanged; it never wraps below 0, and after a run that
   completed by success it goes on counting down until timeout. *)
C29_CountdownUntilTimeout ==
    [][ ~msm_in'.run_stb
          => /\ msm'.time_remaining =
                   (IF ~timeout(msm)
                    THEN msm.time_remaining - 1 ELSE msm.time_remaining)
             /\ msm'.time_remaining >= 0 ]_vars

(* A run that completed by success with budget left, two clocks later: the
   budget has gone on counting down. *)
C29_Witness ==
    /\ ~msm.running /\ msm.success /\ done_count = 1
    /\ msm.cycles_completed = 1
    /\ msm.state = "IDLE"
    /\ msm.time_remaining = 1
    /\ ~msm_in.run_stb
    /\ msm_hist.attempts = 1

----------------------------------------------------------------------------
(* The register a read address names, at its full width *)
AddressedRegister(address, s, cnt) ==
    CASE address = ADDR_R_NCYCLES -> s.cycles_completed
      [] address = ADDR_R_TIMEREMAINING -> s.time_remaining
      [] address \in ADDR_R_COUNTER_RESULT_BASE..(ADDR_R_COUNTER_RESULT_BASE + 7) -> cnt

(* C27: the datum of a read reply equals the current value of the addressed
   register; a TIMEREMAINING read returns the 32-bit time_remaining and a
   COUNT_SINGLE/COUNT_PATTERN read the 32-bit counter value, for every value
   the registers can hold.  (Stated for replies on clocks without a
   completion event.) *)
C27_ReadDatumIsRegister ==
    [][ LET dstb == done_stb(ent_msm, LoggedMsmInput(ent_in'))
        IN  (ent_in.stb /\ read_en(ent_in) /\ ~(ent_core.enable /\ dstb))
               => /\ ent_in'.i_stb
                  /\ ent_in'.i_data
                       = AddressedRegister(ent_in.address, ent_msm, ent_in'.cnt) ]_vars

(* C30: each inter-device link driver is enabled only on the appropriate
   role and only while enable and not standalone: the slave-to-master ready
   driver only when is_master = 0, the master-to-slave trigger, success and
   timeout drivers only when is_master = 1, and no link driver is enabled in
   a state with enable = 0 or standalone = 1. *)
C30_LinkDriversGated ==
    /\ en_out_ready(rf) => ~rf.is_master
    /\ (en_out_trigger(rf) \/ en_out_success(rf) \/ en_out_timeout(rf)) => rf.is_master
    /\ (~rf.enable \/ rf.standalone)
          => ~( \/ en_out_ready(rf) \/ en_out_422ps(rf)
                \/ en_out_trigger(rf) \/ en_out_success(rf) \/ en_out_timeout(rf) )

----------------------------------------------------------------------------
(* C31: time cursor stepping.  m is 0 on the clock after every clock spent
   in IDLE; in COUNTER it increases by exactly 1 per clock and satisfies
   0 <= m <= m_end on every COUNTER clock; in TRIGGER_SLAVE, TRIGGER_SLAVE2,
   SLAVE_SUCCESS_WAIT and SLAVE_SUCCESS_CHECK it is unchanged. *)
C31_CursorStepping ==
    [][ /\ msm.state = "IDLE" => msm'.m = 0
        /\ msm.state = "COUNTER"
              => (msm'.m = msm.m + 1 /\ 0 <= msm.m /\ msm.m <= msm.m_end)
        /\ msm.state \in {"TRIGGER_SLAVE", "TRIGGER_SLAVE2",
                          "SLAVE_SUCCESS_WAIT", "SLAVE_SUCCESS_CHECK"}
              => msm'.m = msm.m ]_vars

(* A slave checking for success after a full count: the cursor has stayed
   at m_end + 1 through SLAVE_SUCCESS_WAIT. *)
C31_Witness ==
    /\ msm.state = "SLAVE_SUCCESS_CHECK"
    /\ ~act_as_master(msm)
    /\ msm.m_end = MaxMEnd
    /\ msm.m = MaxMEnd + 1
    /\ msm.running

(* C32: no attempt starts once the run is finishing.  The FSM leaves IDLE
   only on a clock where ready = 1 and finishing = 0 (and, for a master,
   slave_ready or standalone; for a slave, trigger_in); after success or
   timeout has been observed in IDLE the FSM stays in IDLE and
   cycles_completed stays constant until the next run_stb. *)
C32_NoAttemptOnceFinishing ==
    [][ /\ (msm.state = "IDLE" /\ msm'.state # "IDLE")
              => /\ msm.ready
                 /\ ~finishing(msm, msm_in')
                 /\ act_as_master(msm) => (msm.slave_ready \/ msm.standalone)
                 /\ ~act_as_master(msm) => msm.trigger_in
        /\ ( /\ msm.state = "IDLE"
             /\ ~msm_in'.run_stb
             /\ (finishing(msm, msm_in') \/ (~msm.running /\ done_count > 0)) )
              => /\ msm'.state = "IDLE"
                 /\ msm'.cycles_completed = msm.cycles_completed ]_vars

(* A master whose run timed out after two attempts, idle with its slave
   ready and no new run_stb. *)
C32_Witness ==
    /\ msm.state = "IDLE" /\ ~msm.running /\ ~msm.ready
    /\ msm.is_master /\ ~msm.standalone /\ msm.slave_ready
    /\ timeout(msm) /\ ~msm.success
    /\ done_count = 1
    /\ msm.cycles_completed = 2
    /\ ~msm_in.run_stb

----------------------------------------------------------------------------
(* C33: gater clear.  On the clock following any clock on which clear is
   asserted the gater has got_ref = 0 and triggered = 0, whatever reference
   or signal strobes occurred on the clear clock. *)
C33_ClearResetsGater ==
    gater_in.clear => (~gater.got_ref /\ ~gater.triggered)

(* C34: once a gater has triggered = 1, triggered stays 1 and sig_ts is
   unchanged on every clock until clear is asserted, whatever further signal
   or reference edges arrive; likewise got_ref stays 1 until clear.  At most
   one signal edge per attempt is latched, and it is the first in-window
   one: an edge in the gate window of the attempt's reference. *)
C34_LatchedOnceFirstInWindow ==
    [][ /\ (gater.triggered /\ ~gater_in'.clear)
              => (gater'.triggered /\ gater'.sig_ts = gater.sig_ts)
        /\ (gater.got_ref /\ ~gater_in'.clear) => gater'.got_ref
        /\ (gater'.triggered /\ (~gater.triggered \/ gater_in'.clear))
              => /\ gater.got_ref
                 /\ gater.ref_ts + gater.gate_start <= gater'.sig_ts
                 /\ gater'.sig_ts <= gater.ref_ts + gater.gate_stop ]_vars

----------------------------------------------------------------------------
(* C35: sequencer clear priority.  On the clock following any clock with
   clear asserted the sequencer output is 0 even if stb_start was asserted
   on that clock; consequently the output is 0 in every state in which the
   core is not running. *)
C35_ClearPriority ==
    [][ /\ cycle_starting(msm) => ~seq'.output
        /\ ~msm'.running => ~seq'.output ]_vars

(* After a run: the core idles with the cursor at m_start, so clear and
   stb_start were asserted together on the last clock, the output was high
   during the last attempt and is low now. *)
C35_Witness ==
    /\ ~msm.running /\ done_count = 1 /\ ~msm.done_d
    /\ msm.state = "IDLE" /\ msm.m = 0
    /\ seq.m_start = 0 /\ seq.m_stop = MaxMEnd
    /\ seq_hist.high >= 1
    /\ ~seq.output

----------------------------------------------------------------------------
(* C38: lock-step of the pair (neither device standalone, equal m_end).
   Whenever master and slave are both in
   COUNTER on the same clock they have equal m, and the slave enters COUNTER
   on exactly the clock the master does; the slave never runs an attempt the
   master did not trigger. *)
C38_PairLockStep ==
    [][ (~master.standalone /\ ~slave.standalone) =>
          /\ (master.state = "COUNTER" /\ slave.state = "COUNTER") => master.m = slave.m
          /\ (slave.state # "COUNTER" /\ slave'.state = "COUNTER")
                => (master.state = "TRIGGER_SLAVE2" /\ master'.state = "COUNTER") ]_vars

(* C36: an attempt of the master or of the slave that never waited in IDLE  *)
(* (a run was active and the partner ready on each of its IDLE clocks)      *)
(* lasts between m_end + 3 and m_end + 5 clocks from its entry into IDLE to *)
(* the next entry into IDLE.                                                *)
C36_AttemptDuration ==
    /\ att.master.last # 0
          => (master.m_end + 3 <= att.master.last /\ att.master.last <= master.m_end + 5)
    /\ att.slave.last # 0
          => (slave.m_end + 3 <= att.slave.last /\ att.slave.last <= slave.m_end + 5)

C36_Witness ==
    /\ att.slave.last = slave.m_end + 4 /\ master.cycles_completed = 2
    /\ master.m_end = 1 /\ ~master.standalone /\ ~slave.standalone

(* C37: in every reachable state of the MainStateMachine ready = 1 implies  *)
(* running = 1, running = 0 implies the FSM is in IDLE, and done_stb is     *)
(* asserted, for whatever input the clock brings, only in IDLE.             *)
C37_AttemptOnlyDuringRun ==
    /\ msm.ready => msm.running
    /\ ~msm.running => msm.state = "IDLE"
    /\ \A i \in MsmInputs : done_stb(msm, i) => msm.state = "IDLE"

(* The clock of done_stb at the end of a timed-out run: back in IDLE, ready *)
(* already cleared, running still set.                                      *)
C37_Witness ==
    /\ msm.state = "IDLE"
    /\ msm.running
    /\ ~msm.ready
    /\ done_stb(msm, NoMsmInput)
    /\ msm.cycles_completed >= 1
    /\ ~msm.success

(* C39: success is only set by a herald.  On a master or standalone device *)
(* it rises only on the clock after a COUNTER clock with cycle_ending and   *)
(* herald, on a slave only on the clock after a SLAVE_SUCCESS_CHECK clock   *)
(* with success_in; once 1 it stays 1 until a run_stb; a timeout without    *)
(* those conditions leaves it at 0.                                         *)
C39_SuccessOnlyByHerald ==
    [][ /\ (~msm.success /\ msm'.success)
              => IF act_as_master(msm)
                 THEN msm.state = "COUNTER" /\ cycle_ending(msm) /\ msm_in'.herald
                 ELSE msm.state = "SLAVE_SUCCESS_CHECK" /\ msm.success_in
        /\ (msm.success /\ ~msm_in'.run_stb) => msm'.success
        /\ ( /\ ~msm.success /\ timeout(msm)
             /\ ~(msm.state = "COUNTER" /\ cycle_ending(msm) /\ msm_in'.herald)
             /\ ~(msm.state = "SLAVE_SUCCESS_CHECK" /\ msm.success_in) )
              => ~msm'.success ]_vars

(* A slave back in IDLE from SLAVE_SUCCESS_CHECK (m still m_end + 1) with   *)
(* success set from success_in.                                             *)
C39_Witness ==
    /\ msm.success
    /\ ~act_as_master(msm)
    /\ msm.state = "IDLE"
    /\ msm.m = msm.m_end + 1
    /\ msm.running
    /\ msm.cycles_completed = 1

(* C40: when a read reply falls on the clock of done_stb with enable high,  *)
(* that clock gives one input event whose datum is the completion datum     *)
(* (heralder.matches if success, else 0x3FFF); the read is cleared, and     *)
(* unless the host issues a new read on that clock the next clock gives no  *)
(* input event, whatever its inputs.                                        *)
C40_CompletionOverridesReply ==
    [][ ( /\ ent_phy.read
          /\ ent_core.enable
          /\ done_stb(ent_msm, LoggedMsmInput(ent_in')) )
        => ( /\ ent_in'.i_stb
             /\ ent_in'.i_data = (IF ent_msm.success THEN matches(ent_core) ELSE TimeoutDatum)
             /\ ent_hist'.events = ent_hist.events + 1
             /\ ~(ent_in'.stb /\ read_en(ent_in'))
                  => \A i \in MsmInputs :
                        ~i_stb(ent_phy', ent_core', ent_msm', i) ) ]_vars

(* The clock after a counter read: the reply was pending with a counter     *)
(* value other than 0 (ent_in.cnt), the run timed out on the same clock and *)
(* the one input event carries 0x3FFF.                                      *)
C40_Witness ==
    /\ ent_in.i_stb
    /\ ent_in.i_data = TimeoutDatum
    /\ ent_in.cnt # 0
    /\ ent_in.cnt # TimeoutDatum
    /\ ent_hist.events = 1
    /\ ent_core.enable
    /\ ~ent_phy.read
    /\ ~ent_in.stb
    /\ ~ent_msm.running

====
